---------------------------- MODULE Spec2Model ----------------------------
(***************************************************************************)
(* Call-graph construction of codeanalyzer-go: callgraph.Build, the        *)
(* identity function stableFuncID and the part of runAnalysis that drives  *)
(* them.  Go strings are sequences of one-character strings, so that the   *)
(* prefix, substring and LastIndex operations of the code are computed     *)
(* and not assumed.                                                        *)
(***************************************************************************)
EXTENDS Integers, Sequences, FiniteSets, TLC

(***************************************************************************)
(* Bounds.                                                                 *)
(***************************************************************************)
\* longest body of the two functions whose call sites vary
MaxBody == 2

(***************************************************************************)
(* Strings.                                                                *)
(***************************************************************************)
Range(s) == {s[i] : i \in 1..Len(s)}

\* byte value of the characters that occur in identities (Go compares
\* strings bytewise)
Byte(c) ==
  CASE c = "$" -> 36 [] c = "(" -> 40 [] c = ")" -> 41 [] c = "*" -> 42
    [] c = "." -> 46 [] c = "/" -> 47
    [] c = "B" -> 66 [] c = "C" -> 67 [] c = "M" -> 77 [] c = "N" -> 78
    [] c = "T" -> 84 [] c = "U" -> 85
    [] c = "a" -> 97 [] c = "g" -> 103 [] c = "i" -> 105 [] c = "m" -> 109
    [] c = "n" -> 110 [] c = "p" -> 112 [] c = "q" -> 113 [] c = "t" -> 116
    [] c = "z" -> 122

\* Go's s < t on strings
RECURSIVE StrLess(_, _)
StrLess(s, t) ==
  IF t = <<>> THEN FALSE
  ELSE IF s = <<>> THEN TRUE
  ELSE IF Byte(Head(s)) # Byte(Head(t)) THEN Byte(Head(s)) < Byte(Head(t))
  ELSE StrLess(Tail(s), Tail(t))

\* strings.HasPrefix
HasPrefix(s, pre) ==
  /\ Len(pre) <= Len(s)
  /\ SubSeq(s, 1, Len(pre)) = pre

\* strings.Contains
Contains(s, sub) ==
  \E i \in 0..(Len(s) - Len(sub)) : SubSeq(s, i + 1, i + Len(sub)) = sub

\* strings.LastIndex(s, c) for a one-byte c: 0-based index, -1 when absent
LastIndex(s, c) ==
  LET hits == {i \in 1..Len(s) : s[i] = c}
  IN IF hits = {} THEN -1
     ELSE (CHOOSE i \in hits : \A j \in hits : j <= i) - 1

\* Go's s[k:]
SliceFrom(s, k) == SubSeq(s, k + 1, Len(s))


(***************************************************************************)
(* The loaded program: the *ssa.Function values Build reads.  A function   *)
(* is named by a key; Fn gives the fields Build and stableFuncID read      *)
(* (Pkg.Pkg.Path(), Name(), Signature.Recv().Type().String(), Pos()).      *)
(* Package p holds main, init and the types T and U, both with a           *)
(* value-receiver method M; wT and wU are the synthesized wrappers of M    *)
(* for the pointer types of T and U, which belong to no package; package   *)
(* q holds the function B and the method C of type V, declared with a      *)
(* pointer receiver.                                                       *)
(***************************************************************************)
PkgP == <<"g", ".", "p">>
PkgQ == <<"g", ".", "q">>
NoPkg == <<>>
NoRecv == <<>>

\* LoadResult.Root and the files of the positions, as path segments
Root == <<"r">>
FileP == <<"r", "p", "m.go">>
FileQ == <<"d", "q", "c.go">>

NoPos == [file |-> <<>>, line |-> 0, col |-> 0]
PosAt(f, l, c) == [file |-> f, line |-> l, col |-> c]

FuncKeys == {"main", "init", "B", "TM", "wT", "UM", "wU", "VC"}

FnOf(k) ==
  CASE k = "main" -> [pkg |-> PkgP, name |-> <<"m", "a", "i", "n">>,
                      recv |-> NoRecv, str |-> <<>>, pos |-> PosAt(FileP, 10, 6)]
    [] k = "init" -> [pkg |-> PkgP, name |-> <<"i", "n", "i", "t">>,
                      recv |-> NoRecv, str |-> <<>>, pos |-> NoPos]
    [] k = "B"    -> [pkg |-> PkgQ, name |-> <<"B">>,
                      recv |-> NoRecv, str |-> <<>>, pos |-> PosAt(FileQ, 20, 6)]
    [] k = "TM"   -> [pkg |-> PkgP, name |-> <<"M">>,
                      recv |-> PkgP \o <<".", "T">>, str |-> <<>>,
                      pos |-> PosAt(FileP, 30, 10)]
    [] k = "wT"   -> [pkg |-> NoPkg, name |-> <<"M">>,
                      recv |-> <<"*">> \o PkgP \o <<".", "T">>,
                      str |-> <<"(", "*">> \o PkgP \o <<".", "T", ")", ".", "M">>,
                      pos |-> PosAt(FileP, 30, 10)]
    [] k = "UM"   -> [pkg |-> PkgP, name |-> <<"M">>,
                      recv |-> PkgP \o <<".", "U">>, str |-> <<>>,
                      pos |-> PosAt(FileP, 40, 10)]
    [] k = "wU"   -> [pkg |-> NoPkg, name |-> <<"M">>,
                      recv |-> <<"*">> \o PkgP \o <<".", "U">>,
                      str |-> <<"(", "*">> \o PkgP \o <<".", "U", ")", ".", "M">>,
                      pos |-> PosAt(FileP, 40, 10)]
    [] k = "VC"   -> [pkg |-> PkgQ, name |-> <<"C">>,
                      recv |-> <<"*">> \o PkgQ \o <<".", "V">>, str |-> <<>>,
                      pos |-> PosAt(FileQ, 50, 11)]

FnTab == [k \in FuncKeys |-> FnOf(k)]
Fn(k) == FnTab[k]

(***************************************************************************)
(* Identity.                                                               *)
(***************************************************************************)
\* normalizeReceiverType: the receiver type without its package path
normalizeReceiverType(t, pkg) ==
  IF HasPrefix(t, <<"*">>)
  THEN LET inner == SliceFrom(t, 1)
           idx == LastIndex(inner, ".")
       IN <<"(", "*">> \o (IF idx >= 0 THEN SliceFrom(inner, idx + 1) ELSE inner)
            \o <<")">>
  ELSE LET idx == LastIndex(t, ".")
       IN IF idx >= 0 THEN SliceFrom(t, idx + 1) ELSE t

\* stableFuncID of a non-nil function f (a record as given by Fn)
stableFuncID(f) ==
  IF f.pkg = NoPkg
  THEN IF f.name # <<>> THEN f.name ELSE f.str
  ELSE IF f.recv # NoRecv
       THEN f.pkg \o <<".">> \o normalizeReceiverType(f.recv, f.pkg)
              \o <<".">> \o f.name
       ELSE f.pkg \o <<".">> \o f.name

\* the identity of each function of the program
FuncID == [k \in FuncKeys |-> stableFuncID(Fn(k))]

(***************************************************************************)
(* Program representation handed to the call-graph stage: the types, the   *)
(* interface, and the instructions of a function body.                     *)
(***************************************************************************)
\* concrete types, in the order the builders enumerate them: T, U, V and
\* their pointer types PT, PU, PV
TypeOrder == <<"T", "PT", "U", "PU", "V", "PV">>
ConcreteTypes == Range(TypeOrder)
Interfaces == {"I"}

\* flattened method set of an interface
IfaceMethods(i) == {"M"}

\* method set of a concrete type: method name -> the function implementing it
MethodSet(t) ==
  CASE t = "T"  -> [m \in {"M"} |-> "TM"]
    [] t = "PT" -> [m \in {"M"} |-> "wT"]
    [] t = "U"  -> [m \in {"M"} |-> "UM"]
    [] t = "PU" -> [m \in {"M"} |-> "wU"]
    [] t = "V"  -> [m \in {} |-> "nil"]
    [] t = "PV" -> [m \in {"C"} |-> "VC"]

\* the precomputed Satisfies relation: concrete type -> interfaces
Satisfies(t) == {i \in Interfaces : IfaceMethods(i) \subseteq DOMAIN MethodSet(t)}

\* instructions: a static call, an interface (invoke-mode) call, and the
\* conversion of a concrete type to an interface; mode is call, go or defer
Call(mode, g) == [op |-> "call", mode |-> mode, callee |-> g]
Invoke(mode, i, m) == [op |-> "invoke", mode |-> mode, iface |-> i, method |-> m]
Make(t) == [op |-> "make", type |-> t]

MainInstr == {Call("call", "B"), Call("go", "B"), Invoke("call", "I", "M"), Make("T")}
BInstr == {Invoke("call", "I", "M"), Make("PU"), Make("PV"), Call("defer", "VC")}

Bodies(S, n) == UNION {[1..k -> S] : k \in 0..n}

\* the body of every function of a program whose main and B have the given
\* bodies: a wrapper calls the method it wraps
BodiesOf(mainBody, bBody) ==
  [k \in FuncKeys |->
     CASE k = "main" -> mainBody
       [] k = "B"    -> bBody
       [] k = "wT"   -> <<Call("call", "TM")>>
       [] k = "wU"   -> <<Call("call", "UM")>>
       [] OTHER      -> <<>>]

Programs ==
  {[pkgName |-> n, body |-> BodiesOf(mb, bb)] :
     n \in {"main", "lib"}, mb \in Bodies(MainInstr, MaxBody), bb \in Bodies(BInstr, 1)}

\* the call site of instruction i of function f: its kind and its position
\* (the instructions of a synthesized wrapper have no position)
SiteOf(f, i, ins) ==
  [mode |-> ins.mode, instr |-> i,
   pos  |-> IF Fn(f).pkg = NoPkg THEN NoPos
            ELSE PosAt(Fn(f).pos.file, Fn(f).pos.line + i, 2)]

\* a call-graph edge; site is <<s>> for the call instruction s, <<>> for none
Edge(f, g, site) == [caller |-> f, callee |-> g, site |-> <<site>>]

RECURSIVE Flatten(_)
Flatten(ss) == IF ss = <<>> THEN <<>> ELSE Head(ss) \o Flatten(Tail(ss))

(***************************************************************************)
(* cha.CallGraph: every call site of every function; an interface call     *)
(* resolves to the method of every concrete type satisfying the interface. *)
(***************************************************************************)
ChaCallees(ins) ==
  IF ins.op = "call" THEN <<ins.callee>>
  ELSE IF ins.op = "invoke"
  THEN LET ts == SelectSeq(TypeOrder, LAMBDA t : ins.iface \in Satisfies(t))
       IN [j \in 1..Len(ts) |-> MethodSet(ts[j])[ins.method]]
  ELSE <<>>

ChaOut(prog, f) ==
  LET b == prog.body[f]
  IN Flatten([i \in 1..Len(b) |->
                LET cs == ChaCallees(b[i])
                IN [j \in 1..Len(cs) |-> Edge(f, cs[j], SiteOf(f, i, b[i]))]])

cha_CallGraph(prog) ==
  [nodes |-> FuncKeys, out |-> [f \in FuncKeys |-> ChaOut(prog, f)]]

(***************************************************************************)
(* rta.Analyze: the worklist fixpoint over the reachable functions and the *)
(* live types.  st.queue is the work queue, st.reach the reachable         *)
(* functions, st.live the live types, st.sites the interface call sites    *)
(* seen so far (the pending index), st.out the edges found, per caller.    *)
(***************************************************************************)
\* RtaAddEdge that queues the callee whether or not it is already reachable
RtaAddEdge_AlwaysQueue(st, f, g, site) ==
  [st EXCEPT !.out[f] = Append(@, Edge(f, g, site)),
             !.reach  = @ \cup {g},
             !.queue  = Append(@, g)]

RtaAddEdge(st, f, g, site) ==
  [st EXCEPT !.out[f] = Append(@, Edge(f, g, site)),
             !.reach  = @ \cup {g},
             !.queue  = IF g \in st.reach THEN @ ELSE Append(@, g)]

\* the edges of one interface call site to the types ts (a sequence)
RECURSIVE RtaResolve(_, _, _)
RtaResolve(st, s, ts) ==
  IF ts = <<>> THEN st
  ELSE LET t == Head(ts)
           st1 == IF s.ins.iface \in Satisfies(t)
                  THEN RtaAddEdge(st, s.caller, MethodSet(t)[s.ins.method], s.site)
                  ELSE st
       IN RtaResolve(st1, s, Tail(ts))

\* a type becomes live: every pending interface call site is re-examined
RECURSIVE RtaRevisit(_, _, _)
RtaRevisit(st, t, ss) ==
  IF ss = <<>> THEN st
  ELSE RtaRevisit(RtaResolve(st, Head(ss), <<t>>), t, Tail(ss))

\* RtaAddType that does not re-examine the pending interface call sites
RtaAddType_NoRevisit(st, t) == [st EXCEPT !.live = @ \cup {t}]

RtaAddType(st, t) ==
  IF t \in st.live THEN st
  ELSE RtaRevisit([st EXCEPT !.live = @ \cup {t}], t, st.sites)

RtaVisitInstr(st, f, i, ins) ==
  IF ins.op = "call" THEN RtaAddEdge(st, f, ins.callee, SiteOf(f, i, ins))
  ELSE IF ins.op = "make" THEN RtaAddType(st, ins.type)
  ELSE LET s == [caller |-> f, ins |-> ins, site |-> SiteOf(f, i, ins)]
       IN RtaResolve([st EXCEPT !.sites = Append(@, s)], s,
                     SelectSeq(TypeOrder, LAMBDA t : t \in st.live))

RECURSIVE RtaVisitBody(_, _, _, _)
RtaVisitBody(prog, st, f, i) ==
  IF i > Len(prog.body[f]) THEN st
  ELSE RtaVisitBody(prog, RtaVisitInstr(st, f, i, prog.body[f][i]), f, i + 1)

RECURSIVE RtaRun(_, _)
RtaRun(prog, st) ==
  IF st.queue = <<>> THEN st
  ELSE RtaRun(prog, RtaVisitBody(prog, [st EXCEPT !.queue = Tail(@)], Head(st.queue), 1))

RtaFixpoint(prog, roots) ==
  RtaRun(prog, [queue |-> roots, reach |-> Range(roots), live |-> {},
                sites |-> <<>>, out |-> [f \in FuncKeys |-> <<>>]])

rta_Analyze(prog, roots) ==
  LET st == RtaFixpoint(prog, roots)
  IN [nodes |-> st.reach, out |-> st.out]

(***************************************************************************)
(* callgraph.Build.                                                        *)
(***************************************************************************)
\* strings.ToLower on the algorithm names
ToLower(a) == CASE a = "RTA" -> "rta" [] a = "CHA" -> "cha" [] OTHER -> a

\* ssa.Package.Func: the package-level function of that name, <<>> if none
Func(pkg, name) ==
  LET c == {k \in FuncKeys : Fn(k).pkg = pkg /\ Fn(k).name = name /\ Fn(k).recv = NoRecv}
  IN IF c = {} THEN <<>> ELSE <<CHOOSE k \in c : TRUE>>

PkgName(prog, pkg) == IF pkg = PkgP THEN prog.pkgName ELSE "q"

\* ssautil.MainPackages
MainPackages(prog, pkgs) ==
  SelectSeq(pkgs, LAMBDA m : PkgName(prog, m) = "main" /\ Func(m, <<"m", "a", "i", "n">>) # <<>>)

\* the roots of the RTA analysis: main and init of every main package
Roots(prog, pkgs) ==
  LET ms == MainPackages(prog, pkgs)
  IN Flatten([i \in 1..Len(ms) |->
                Func(ms[i], <<"m", "a", "i", "n">>) \o Func(ms[i], <<"i", "n", "i", "t">>)])

\* SelectGraph with the two branches of the switch exchanged
SelectGraph_Swapped(result, cfg) ==
  LET prog  == result.SSAProgram[1]
      lower == ToLower(cfg.Algorithm)
      algo  == IF lower = "" THEN "rta" ELSE lower
      roots == Roots(prog, result.SSAPackages)
  IN IF algo = "rta"
     THEN [cg |-> cha_CallGraph(prog), algo |-> "rta"]
     ELSE IF Len(roots) = 0
          THEN [cg |-> cha_CallGraph(prog), algo |-> "cha"]
          ELSE [cg |-> rta_Analyze(prog, roots), algo |-> "cha"]

\* SelectGraph without the fallback: RTA runs on an empty root list
SelectGraph_NoFallback(result, cfg) ==
  LET prog  == result.SSAProgram[1]
      lower == ToLower(cfg.Algorithm)
      algo  == IF lower = "" THEN "rta" ELSE lower
      roots == Roots(prog, result.SSAPackages)
  IN IF algo = "rta"
     THEN [cg |-> rta_Analyze(prog, roots), algo |-> "rta"]
     ELSE [cg |-> cha_CallGraph(prog), algo |-> "cha"]

\* SelectGraph whose rta case builds the CHA graph
SelectGraph_RtaAsCha(result, cfg) ==
  LET prog  == result.SSAProgram[1]
      lower == ToLower(cfg.Algorithm)
      algo  == IF lower = "" THEN "rta" ELSE lower
      roots == Roots(prog, result.SSAPackages)
  IN IF algo = "rta"
     THEN [cg |-> cha_CallGraph(prog),
           algo |-> IF Len(roots) = 0 THEN "cha-fallback" ELSE "rta"]
     ELSE [cg |-> cha_CallGraph(prog), algo |-> "cha"]

\* SelectGraph whose default case builds the RTA graph when there are roots
SelectGraph_ChaAsRta(result, cfg) ==
  LET prog  == result.SSAProgram[1]
      lower == ToLower(cfg.Algorithm)
      algo  == IF lower = "" THEN "rta" ELSE lower
      roots == Roots(prog, result.SSAPackages)
  IN IF Len(roots) = 0
     THEN [cg |-> cha_CallGraph(prog),
           algo |-> IF algo = "rta" THEN "cha-fallback" ELSE "cha"]
     ELSE [cg |-> rta_Analyze(prog, roots), algo |-> IF algo = "rta" THEN "rta" ELSE "cha"]

\* the switch on the algorithm: the graph and the algorithm field
SelectGraph(result, cfg) ==
  LET prog  == result.SSAProgram[1]
      lower == ToLower(cfg.Algorithm)
      algo  == IF lower = "" THEN "rta" ELSE lower
      roots == Roots(prog, result.SSAPackages)
  IN IF algo = "rta"
     THEN IF Len(roots) = 0
          THEN [cg |-> cha_CallGraph(prog), algo |-> "cha-fallback"]
          ELSE [cg |-> rta_Analyze(prog, roots), algo |-> "rta"]
     ELSE [cg |-> cha_CallGraph(prog), algo |-> "cha"]

\* inAllowedPkgs that matches an entry at the start of the path only
inAllowedPkgs_Prefix(k, cfg) ==
  IF Fn(k).pkg = NoPkg THEN Len(cfg.OnlyPkg) = 0
  ELSE IF Len(cfg.OnlyPkg) = 0 THEN TRUE
  ELSE \E i \in 1..Len(cfg.OnlyPkg) :
         cfg.OnlyPkg[i] # <<>> /\ HasPrefix(Fn(k).pkg, cfg.OnlyPkg[i])

inAllowedPkgs(k, cfg) ==
  IF Fn(k).pkg = NoPkg THEN Len(cfg.OnlyPkg) = 0
  ELSE IF Len(cfg.OnlyPkg) = 0 THEN TRUE
  ELSE \E i \in 1..Len(cfg.OnlyPkg) :
         cfg.OnlyPkg[i] # <<>> /\ Contains(Fn(k).pkg, cfg.OnlyPkg[i])

\* filepath.Rel(root, file) followed by filepath.ToSlash, on path segments
RelPath(root, file) ==
  LET same == {n \in 0..Len(root) : n <= Len(file) /\ SubSeq(root, 1, n) = SubSeq(file, 1, n)}
      n == CHOOSE m \in same : \A j \in same : j <= m
  IN [i \in 1..(Len(root) - n) |-> ".."] \o SubSeq(file, n + 1, Len(file))

\* PositionOf that ignores EmitPositions
PositionOf_Always(pos, root, cfg) ==
  IF pos.line > 0
  THEN <<[File |-> RelPath(root, pos.file), StartLine |-> pos.line,
          StartColumn |-> pos.col]>>
  ELSE <<>>

\* the position of a token.Pos under EmitPositions: <<>> is the nil pointer
PositionOf(pos, root, cfg) ==
  IF cfg.EmitPositions # "minimal" /\ pos.line > 0
  THEN <<[File |-> RelPath(root, pos.file), StartLine |-> pos.line,
          StartColumn |-> pos.col]>>
  ELSE <<>>

buildNode(k, root, cfg) ==
  [ID |-> FuncID[k], QualifiedName |-> FuncID[k], Name |-> Fn(k).name,
   Package |-> Fn(k).pkg,
   Kind |-> IF Fn(k).recv # NoRecv THEN "method" ELSE "function",
   Position |-> PositionOf(Fn(k).pos, root, cfg)]

\* KindOf that tells no call instruction from another
KindOf_AlwaysCall(e) ==
  IF e.site = <<>> THEN "" ELSE "call"

\* the kind of an edge, from the type of its call instruction
KindOf(e) ==
  IF e.site = <<>> THEN ""
  ELSE IF e.site[1].mode = "go" THEN "go"
  ELSE IF e.site[1].mode = "defer" THEN "defer"
  ELSE "call"

buildEdge(e, root, cfg) ==
  [Source |-> FuncID[e.caller], Target |-> FuncID[e.callee],
   CallSite |-> IF e.site = <<>> THEN <<>> ELSE PositionOf(e.site[1].pos, root, cfg),
   Kind |-> KindOf(e)]

Arrow == "->"
EdgeKey(srcID, dstID) == srcID \o <<Arrow>> \o dstID

\* the nil *ssa.Function: the Func of a nil edge, of a nil node and of a
\* node without function
NilFunc == "nil"

\* ProcessEdge in which a later call site replaces the edge of its pair
ProcessEdge_LastWins(acc, e, root, cfg) ==
  LET srcID == FuncID[e.caller]
      dstID == FuncID[e.callee]
  IN IF Len(cfg.OnlyPkg) > 0 /\ ~inAllowedPkgs(e.caller, cfg) /\ ~inAllowedPkgs(e.callee, cfg)
     THEN acc
     ELSE [nodeSet |-> (acc.nodeSet @@ (srcID :> buildNode(e.caller, root, cfg)))
                        @@ (dstID :> buildNode(e.callee, root, cfg)),
           edgeSet |-> (EdgeKey(srcID, dstID) :> buildEdge(e, root, cfg)) @@ acc.edgeSet]

\* ProcessEdge that adds the source node only
ProcessEdge_NoTargetNode(acc, e, root, cfg) ==
  LET srcID == FuncID[e.caller]
      dstID == FuncID[e.callee]
  IN IF Len(cfg.OnlyPkg) > 0 /\ ~inAllowedPkgs(e.caller, cfg) /\ ~inAllowedPkgs(e.callee, cfg)
     THEN acc
     ELSE IF srcID = <<>> \/ dstID = <<>> THEN acc
     ELSE [nodeSet |-> acc.nodeSet @@ (srcID :> buildNode(e.caller, root, cfg)),
           edgeSet |-> acc.edgeSet @@ (EdgeKey(srcID, dstID) :> buildEdge(e, root, cfg))]

\* ProcessEdge whose edge key also holds the call site
ProcessEdge_KeyBySite(acc, e, root, cfg) ==
  LET srcID == FuncID[e.caller]
      dstID == FuncID[e.callee]
  IN IF Len(cfg.OnlyPkg) > 0 /\ ~inAllowedPkgs(e.caller, cfg) /\ ~inAllowedPkgs(e.callee, cfg)
     THEN acc
     ELSE IF srcID = <<>> \/ dstID = <<>> THEN acc
     ELSE [nodeSet |-> (acc.nodeSet @@ (srcID :> buildNode(e.caller, root, cfg)))
                        @@ (dstID :> buildNode(e.callee, root, cfg)),
           edgeSet |-> acc.edgeSet @@ (<<EdgeKey(srcID, dstID), e.site>>
                                         :> buildEdge(e, root, cfg))]

\* ProcessEdge that adds the two nodes before the allow-list filter
ProcessEdge_NodesBeforeFilter(acc, e, root, cfg) ==
  LET srcID == FuncID[e.caller]
      dstID == FuncID[e.callee]
      nodes == (acc.nodeSet @@ (srcID :> buildNode(e.caller, root, cfg)))
                 @@ (dstID :> buildNode(e.callee, root, cfg))
  IN IF Len(cfg.OnlyPkg) > 0 /\ ~inAllowedPkgs(e.caller, cfg) /\ ~inAllowedPkgs(e.callee, cfg)
     THEN [nodeSet |-> nodes, edgeSet |-> acc.edgeSet]
     ELSE [nodeSet |-> nodes,
           edgeSet |-> acc.edgeSet @@ (EdgeKey(srcID, dstID) :> buildEdge(e, root, cfg))]

\* one iteration of the inner loop: acc holds nodeSet and edgeSet
ProcessEdge(acc, e, root, cfg) ==
  IF e.caller = NilFunc \/ e.callee = NilFunc THEN acc
  ELSE
  LET srcID == FuncID[e.caller]
      dstID == FuncID[e.callee]
  IN IF Len(cfg.OnlyPkg) > 0 /\ ~inAllowedPkgs(e.caller, cfg) /\ ~inAllowedPkgs(e.callee, cfg)
     THEN acc
     ELSE IF srcID = <<>> \/ dstID = <<>> THEN acc
     ELSE [nodeSet |-> (acc.nodeSet @@ (srcID :> buildNode(e.caller, root, cfg)))
                        @@ (dstID :> buildNode(e.callee, root, cfg)),
           edgeSet |-> acc.edgeSet @@ (EdgeKey(srcID, dstID) :> buildEdge(e, root, cfg))]

RECURSIVE BuildLoop(_, _, _, _)
BuildLoop(acc, es, root, cfg) ==
  IF es = <<>> THEN acc
  ELSE BuildLoop(ProcessEdge(acc, Head(es), root, cfg), Tail(es), root, cfg)

NodeLess(a, b) == StrLess(a.ID, b.ID)
EdgeLess(a, b) ==
  IF a.Source = b.Source THEN StrLess(a.Target, b.Target) ELSE StrLess(a.Source, b.Source)

\* SortNodes that puts the greatest id first
RECURSIVE SortNodes_Descending(_)
SortNodes_Descending(S) ==
  IF S = {} THEN <<>>
  ELSE LET x == CHOOSE y \in S : \A z \in S \ {y} : ~NodeLess(y, z)
       IN <<x>> \o SortNodes_Descending(S \ {x})

\* sort.Slice(out.Nodes, ...) on the nodes collected from nodeSet
RECURSIVE SortNodes(_)
SortNodes(S) ==
  IF S = {} THEN <<>>
  ELSE LET x == CHOOSE y \in S : \A z \in S \ {y} : ~NodeLess(z, y)
       IN <<x>> \o SortNodes(S \ {x})

\* sort.Slice(out.Edges, ...) on the edges collected from edgeSet
RECURSIVE SortEdges(_)
SortEdges(S) ==
  IF S = {} THEN <<>>
  ELSE LET x == CHOOSE y \in S : \A z \in S \ {y} : ~EdgeLess(z, y)
       IN <<x>> \o SortEdges(S \ {x})

\* the values of a map
Values(m) == {m[k] : k \in DOMAIN m}

\* the nodes of the graph whose Out list is not empty: iterating over the
\* others executes no statement of the loop body
Callers(cg) == {n \in cg.nodes : cg.out[n] # <<>>}

\* the orders in which the map cg.Nodes may be iterated
Orders(cg) ==
  LET C == Callers(cg)
  IN {o \in [1..Cardinality(C) -> C] : \A i, j \in DOMAIN o : o[i] = o[j] => i = j}

\* the conversion loop and the two sorts of Build, on the selected graph sel,
\* iterating over cg.Nodes in the given order
Convert(sel, root, cfg, order) ==
  LET acc == BuildLoop([nodeSet |-> <<>>, edgeSet |-> <<>>],
                       Flatten([i \in 1..Len(order) |-> sel.cg.out[order[i]]]),
                       root, cfg)
  IN [Algorithm |-> sel.algo,
      Nodes |-> SortNodes(Values(acc.nodeSet)),
      Edges |-> SortEdges(Values(acc.edgeSet))]

\* Build that returns neither graph nor error without SSA program
Build_SilentWithoutSSA(result, cfg, order) ==
  IF result.SSAProgram = <<>>
  THEN [cg |-> <<>>, err |-> ""]
  ELSE [cg |-> <<Convert(SelectGraph(result, cfg), result.Root, cfg, order)>>, err |-> ""]

\* what Build(result, cfg) returns: the graph (<<>> is nil) and the error
Build(result, cfg, order) ==
  IF result.SSAProgram = <<>>
  THEN [cg |-> <<>>, err |-> "SSAProgram is nil"]
  ELSE [cg |-> <<Convert(SelectGraph(result, cfg), result.Root, cfg, order)>>, err |-> ""]

(***************************************************************************)
(* loader.LoadWithSSA, output.Write and runAnalysis.                       *)
(***************************************************************************)
\* the packages packages.Load finds under the root: package p (package q
\* is a dependency, loaded but not listed)
LoadedPkgs == <<PkgP>>

\* filterLoadedPackages, without excluded directories
filterLoadedPackages(pkgs, onlyPkg) ==
  IF Len(onlyPkg) = 0 THEN pkgs
  ELSE SelectSeq(pkgs, LAMBDA pp :
         \E i \in 1..Len(onlyPkg) : onlyPkg[i] # <<>> /\ Contains(pp, onlyPkg[i]))

\* LoadWithSSA(root, opts) on a project whose program is prog
LoadWithSSA(prog, opts) ==
  LET validPkgs == filterLoadedPackages(LoadedPkgs, opts.OnlyPkg)
  IN IF Len(validPkgs) = 0
     THEN [result |-> <<>>, err |-> "no valid packages found"]
     ELSE [result |-> <<[Packages |-> validPkgs, Root |-> Root,
                         SSAProgram |-> IF opts.NeedSSA THEN <<prog>> ELSE <<>>,
                         SSAPackages |-> IF opts.NeedSSA THEN validPkgs ELSE <<>>]>>,
           err |-> ""]

\* output.Write: the error it returns ("" is nil)
Write(format) ==
  IF format = "" \/ format = "json" THEN ""
  ELSE IF format = "msgpack" THEN "msgpack format not yet implemented"
  ELSE "unsupported format"

Issue(sev, code) == [Severity |-> sev, Code |-> code]

\* the levels at which runAnalysis extracts symbols and builds the call graph
WantsSymbols(level) == level = "symbol_table" \/ level = "full"
WantsCallGraph(level) == level = "call_graph" \/ level = "full"

\* Assemble in which a failed Build also discards the symbol table
Assemble_FailureDropsSymbols(cl, res, b) ==
  [AnalysisLevel |-> cl.analysisLevel,
   SymbolTable |-> IF WantsSymbols(cl.analysisLevel) /\ ~(b # <<>> /\ b[1].err # "")
                   THEN <<res.Packages>> ELSE <<>>,
   CallGraph |-> IF b # <<>> /\ b[1].err = "" THEN b[1].cg ELSE <<>>,
   Issues |-> (IF b # <<>> /\ b[1].err # ""
               THEN <<Issue("warning", "CALLGRAPH_ERROR")>> ELSE <<>>)
              \o (IF cl.analysisLevel \in {"pdg", "sdg"}
                  THEN <<Issue("info", "NOT_IMPLEMENTED")>> ELSE <<>>)]

\* runAnalysis after a successful load: the CLDKAnalysis it assembles, given
\* what Build returned (b is <<>> when Build was not called)
Assemble(cl, res, b) ==
  [AnalysisLevel |-> cl.analysisLevel,
   SymbolTable |-> IF WantsSymbols(cl.analysisLevel) THEN <<res.Packages>> ELSE <<>>,
   CallGraph |-> IF b # <<>> /\ b[1].err = "" THEN b[1].cg ELSE <<>>,
   Issues |-> (IF b # <<>> /\ b[1].err # ""
               THEN <<Issue("warning", "CALLGRAPH_ERROR")>> ELSE <<>>)
              \o (IF cl.analysisLevel \in {"pdg", "sdg"}
                  THEN <<Issue("info", "NOT_IMPLEMENTED")>> ELSE <<>>)]

\* the Config runAnalysis passes to Build
CgCfg(cl) ==
  [Algorithm |-> cl.cgAlgo, EmitPositions |-> cl.emitPositions, OnlyPkg |-> cl.onlyPkg]

(***************************************************************************)
(* State.                                                                  *)
(***************************************************************************)
VARIABLES
  project,  \* the program of the analysed project
  result,   \* the loader.LoadResult the call-graph stage is given (<<r>>)
  cfg,      \* callgraph.Config without the algorithm: EmitPositions, OnlyPkg
  built,    \* per requested algorithm, what the last Build call returned
  cli,      \* the validated command-line configuration of runAnalysis
  analysis, \* what the last runAnalysis returned and wrote
  ident,    \* a function handed to stableFuncID and the identity returned
  graph,    \* per requested algorithm, the *callgraph.Graph Build converted (SpecConv)
  mainProc, \* the position of main and the exit code of the process (SpecCli)
  loop,     \* the edge loop of one Build call: edges done and to do, the two maps (SpecLoop)
  rta,      \* the RTA worklist: the two sets, the queue, the workers (SpecRta)
  symtab    \* one package in symbols.Extract and schema.ToCompact (SpecSym)

vars == <<project, result, cfg, built, cli, analysis, ident, graph, mainProc, loop, rta, symtab>>

\* the values of Config.Algorithm a caller passes
Requests == {"", "cha"}
None == <<>>

OnlyPkgs == {<<>>, <<<<"q">>>>, <<<<"z">>>>}

\* main is not running
NoProc == [pc |-> "idle", exit |-> <<>>]

NoCli == [analysisLevel |-> "", cgAlgo |-> "", emitPositions |-> "",
          onlyPkg |-> <<>>, format |-> ""]

(***************************************************************************)
(* Spec: calls of callgraph.Build on one loaded program.                   *)
(***************************************************************************)
Init ==
  /\ project \in Programs
  /\ result = LoadWithSSA(project, [OnlyPkg |-> <<>>, NeedSSA |-> TRUE]).result
  /\ cfg \in [EmitPositions : {"detailed", "minimal"}, OnlyPkg : OnlyPkgs]
  /\ built = [a \in Requests |-> None]
  /\ cli = NoCli
  /\ analysis = None
  /\ ident = None
  /\ graph = [a \in Requests |-> None]
  /\ mainProc = NoProc
  /\ loop = None
  /\ rta = None
  /\ symtab = None

ConfigOf(a) == [Algorithm |-> a, EmitPositions |-> cfg.EmitPositions, OnlyPkg |-> cfg.OnlyPkg]

\* one call of callgraph.Build with algorithm a
BuildCall(a) ==
  /\ result # None
  /\ IF result[1].SSAProgram = <<>>
     THEN built' = [built EXCEPT ![a] = <<Build(result[1], ConfigOf(a), <<>>)>>]
     ELSE LET sel == SelectGraph(result[1], ConfigOf(a))
          IN \E order \in Orders(sel.cg) :
               built' = [built EXCEPT ![a] =
                           <<[cg |-> <<Convert(sel, result[1].Root, ConfigOf(a), order)>>,
                              err |-> ""]>>]
  /\ UNCHANGED <<project, result, cfg, cli, analysis, ident, graph, mainProc, loop, rta, symtab>>

Next == \E a \in Requests : BuildCall(a)

Spec == Init /\ [][Next]_vars

(***************************************************************************)
(* SpecRun: runs of runAnalysis on one project.                            *)
(***************************************************************************)
Levels == {"symbol_table", "call_graph", "pdg", "sdg", "full"}
OnlyPkgsRun == {<<>>, <<<<"p">>>>, <<<<"z">>>>}

InitRun ==
  /\ project \in Programs
  /\ result = None
  /\ cfg = [EmitPositions |-> "", OnlyPkg |-> <<>>]
  /\ built = [a \in Requests |-> None]
  /\ cli \in [analysisLevel : Levels, cgAlgo : {"rta", "cha"},
              emitPositions : {"detailed", "minimal"}, onlyPkg : OnlyPkgsRun,
              format : {"json", "msgpack"}]
  /\ analysis = None
  /\ ident = None
  /\ graph = [a \in Requests |-> None]
  /\ mainProc = NoProc
  /\ loop = None
  /\ rta = None
  /\ symtab = None

\* needSSA that asks for the SSA program at level full only
NeedSSA_FullOnly(level) == level = "full"

\* needSSA: the levels at which runAnalysis asks the loader for the SSA program
NeedSSA(level) == level = "call_graph" \/ level = "full"

\* runAnalysis(cfg)
RunAnalysis ==
  LET load == LoadWithSSA(project, [OnlyPkg |-> cli.onlyPkg,
                                    NeedSSA |-> NeedSSA(cli.analysisLevel)])
  IN /\ analysis = None
     /\ result' = load.result
     /\ IF load.err # ""
        THEN analysis' = <<[err |-> "load packages", out |-> <<>>]>>
        ELSE \E b \in (IF ~WantsCallGraph(cli.analysisLevel) THEN {<<>>}
                       ELSE IF load.result[1].SSAProgram = <<>>
                       THEN {<<Build(load.result[1], CgCfg(cli), <<>>)>>}
                       ELSE LET sel == SelectGraph(load.result[1], CgCfg(cli))
                            IN {<<[cg |-> <<Convert(sel, Root, CgCfg(cli), order)>>,
                                   err |-> ""]>> : order \in Orders(sel.cg)}) :
               analysis' = IF Write(cli.format) # ""
                           THEN <<[err |-> "write output", out |-> <<>>]>>
                           ELSE <<[err |-> "",
                                   out |-> <<Assemble(cli, load.result[1], b)>>]>>
     /\ UNCHANGED <<project, cfg, built, cli, ident, graph, mainProc, loop, rta, symtab>>

NextRun == RunAnalysis

SpecRun == InitRun /\ [][NextRun]_vars

(***************************************************************************)
(* SpecId: stableFuncID applied to one function.                           *)
(***************************************************************************)
\* a function is described by its package (NoPkg for none), its name, its
\* receiver kind and the name and package of its receiver type
IdentInputs ==
  {d \in [pkg : {NoPkg, PkgP, PkgQ},
          name : {<<"M">>, <<"C">>, <<"B">>, <<"m", "a", "i", "n">>},
          recvKind : {"none", "value", "pointer"},
          tname : {<<"T">>, <<"U">>}, tpkg : {PkgP, PkgQ}] :
     /\ d.pkg # NoPkg => d.tpkg = d.pkg
     /\ d.recvKind = "none" => d.tname = <<"T">> /\ d.tpkg = PkgP}

\* Signature.Recv().Type().String() of the described function
RecvString(d) ==
  IF d.recvKind = "none" THEN NoRecv
  ELSE (IF d.recvKind = "pointer" THEN <<"*">> ELSE <<>>) \o d.tpkg \o <<".">> \o d.tname

\* the *ssa.Function described by d
FnRecord(d) ==
  [pkg |-> d.pkg, name |-> d.name, recv |-> RecvString(d),
   str |-> IF d.recvKind = "none" THEN d.name
           ELSE <<"(">> \o RecvString(d) \o <<")", ".">> \o d.name,
   pos |-> NoPos]

InitId ==
  /\ project \in {p \in Programs : p.body["main"] = <<>> /\ p.body["B"] = <<>>}
  /\ result = None
  /\ cfg = [EmitPositions |-> "", OnlyPkg |-> <<>>]
  /\ built = [a \in Requests |-> None]
  /\ cli = NoCli
  /\ analysis = None
  /\ ident \in {<<[f |-> d, id |-> None]>> : d \in IdentInputs}
  /\ graph = [a \in Requests |-> None]
  /\ mainProc = NoProc
  /\ loop = None
  /\ rta = None
  /\ symtab = None

\* one call of stableFuncID
StableFuncIDCall ==
  /\ ident # None /\ ident[1].id = None
  /\ ident' = <<[ident[1] EXCEPT !.id = <<stableFuncID(FnRecord(ident[1].f))>>]>>
  /\ UNCHANGED <<project, result, cfg, built, cli, analysis, graph, mainProc, loop, rta, symtab>>

NextId == StableFuncIDCall

SpecId == InitId /\ [][NextId]_vars

(***************************************************************************)
(* Properties of Build (checked under Spec).                               *)
(***************************************************************************)
\* the request a has been built and returned a graph
Has(a) == built[a] # None /\ built[a][1].cg # <<>>
Graph(a) == built[a][1].cg[1]

NodeIDs(g) == {g.Nodes[i].ID : i \in 1..Len(g.Nodes)}
EdgePairs(g) == {<<g.Edges[i].Source, g.Edges[i].Target>> : i \in 1..Len(g.Edges)}

Prog == project

\* the edges of a call graph
GraphEdges(cg) == UNION {Range(cg.out[f]) : f \in cg.nodes}

\* the package of function k contains an allow-list entry
Touches(k) ==
  /\ Fn(k).pkg # NoPkg
  /\ \E i \in 1..Len(cfg.OnlyPkg) : cfg.OnlyPkg[i] # <<>> /\ Contains(Fn(k).pkg, cfg.OnlyPkg[i])

\* the allow-list retains a call from f to g
Retained(f, g) == cfg.OnlyPkg = <<>> \/ Touches(f) \/ Touches(g)

\* the graph the request a is converted from
Underlying(a) == SelectGraph(result[1], ConfigOf(a)).cg

\* C1: two Build calls on the same loaded program with the same Config return
\* the same ordered node and edge lists, whatever the iteration order
C1_Deterministic ==
  [][\A a \in Requests : built[a] # None => built'[a] = built[a]]_vars

\* C2: in every returned graph the source and the target of every edge are
\* ids of nodes of the node list
C2_EndpointsAreNodes ==
  \A a \in Requests : Has(a) =>
    \A i \in 1..Len(Graph(a).Edges) :
      /\ Graph(a).Edges[i].Source \in NodeIDs(Graph(a))
      /\ Graph(a).Edges[i].Target \in NodeIDs(Graph(a))

C2_Witness ==
  \E a \in Requests :
    /\ Has(a) /\ cfg.OnlyPkg # <<>>
    /\ Len(Graph(a).Edges) >= 2

\* C3: every retained call of the underlying graph has exactly one output
\* edge for its (source, target) pair, also when several calls share the
\* pair, and no two output nodes share an id
C3_OneEdgePerPair ==
  \A a \in Requests : Has(a) =>
    /\ \A e \in GraphEdges(Underlying(a)) :
         Retained(e.caller, e.callee) =>
           Cardinality({i \in 1..Len(Graph(a).Edges) :
                          /\ Graph(a).Edges[i].Source = FuncID[e.caller]
                          /\ Graph(a).Edges[i].Target = FuncID[e.callee]}) = 1
    /\ \A i, j \in 1..Len(Graph(a).Nodes) :
         Graph(a).Nodes[i].ID = Graph(a).Nodes[j].ID => i = j

C3_Witness ==
  \E a \in Requests :
    /\ Has(a)
    /\ \E e1, e2 \in GraphEdges(Underlying(a)) :
         /\ e1 # e2 /\ e1.caller = e2.caller /\ e1.callee = e2.callee
         /\ <<FuncID[e1.caller], FuncID[e1.callee]>> \in EdgePairs(Graph(a))

\* C4: the identities of the RTA graph are among those of the CHA graph of
\* the same program and Config, and the RTA graph has no more edges
C4_RtaWithinCha ==
  (Has("") /\ Has("cha")) =>
    /\ NodeIDs(Graph("")) \subseteq NodeIDs(Graph("cha"))
    /\ Len(Graph("").Edges) <= Len(Graph("cha").Edges)

C4_Witness ==
  /\ Has("") /\ Has("cha")
  /\ Graph("").Algorithm = "rta"
  /\ NodeIDs(Graph("")) # {}
  /\ NodeIDs(Graph("")) # NodeIDs(Graph("cha"))
  /\ Len(Graph("").Edges) < Len(Graph("cha").Edges)

\* the program supplies no entry point: no main package with a main function
NoEntryPoint == Prog.pkgName # "main"

EntryPoints(prog) == IF prog.pkgName = "main" THEN {"main", "init"} ELSE {}

\* f holds a static call of g
CallsDirectly(prog, f, g) ==
  \E i \in 1..Len(prog.body[f]) : prog.body[f][i].op = "call" /\ prog.body[f][i].callee = g

\* the interface calls (interface, method) in the body of f
InvokesOf(prog, f) ==
  {<<prog.body[f][i].iface, prog.body[f][i].method>> :
     i \in {j \in 1..Len(prog.body[f]) : prog.body[f][j].op = "invoke"}}

\* the types converted to an interface in the body of f
MakesOf(prog, f) ==
  {prog.body[f][i].type : i \in {j \in 1..Len(prog.body[f]) : prog.body[f][j].op = "make"}}

\* one round of the two mutually dependent rules: the functions called from
\* reachable functions, and the types instantiated in reachable functions
ReachStep(prog, X) ==
  [reach |-> X.reach
             \cup {g \in FuncKeys : \E f \in X.reach : CallsDirectly(prog, f, g)}
             \cup {MethodSet(t)[im[2]] :
                     t \in {u \in X.live : \E f \in X.reach : \E im \in InvokesOf(prog, f) :
                                             im[1] \in Satisfies(u)},
                     im \in UNION {InvokesOf(prog, f) : f \in X.reach}},
   live  |-> X.live \cup UNION {MakesOf(prog, f) : f \in X.reach}]

\* the least pair (reachable functions, live types) closed under the rules
RECURSIVE Closure(_, _)
Closure(prog, X) ==
  LET Y == ReachStep(prog, X)
  IN IF Y = X THEN X ELSE Closure(prog, Y)

Reachable(prog) == Closure(prog, [reach |-> EntryPoints(prog), live |-> {}])

\* f holds an interface call that resolves to g through a live type
InvokesLive(prog, X, f, g) ==
  \E im \in InvokesOf(prog, f) : \E t \in X.live :
    im[1] \in Satisfies(t) /\ MethodSet(t)[im[2]] = g

\* C7: under RTA an edge comes from a static call or from an interface call
\* in a reachable function to the method of a type that satisfies the
\* interface and is instantiated in reachable code; and every such interface
\* call that the allow-list retains has its edge
C7_RtaOnlyLiveTypes ==
  (Has("") /\ Graph("").Algorithm = "rta") =>
    LET X == Reachable(Prog)
    IN /\ \A p \in EdgePairs(Graph("")) :
            \E f \in X.reach, g \in FuncKeys :
              /\ FuncID[f] = p[1] /\ FuncID[g] = p[2]
              /\ CallsDirectly(Prog, f, g) \/ InvokesLive(Prog, X, f, g)
       /\ \A f \in X.reach, g \in FuncKeys :
            (InvokesLive(Prog, X, f, g) /\ Retained(f, g)) =>
              <<FuncID[f], FuncID[g]>> \in EdgePairs(Graph(""))

\* T and U both implement M, only T is instantiated, and main calls M
\* through I: the edge to the M of T and none to the M of U
C7_Witness ==
  /\ Has("") /\ Graph("").Algorithm = "rta"
  /\ <<"I", "M">> \in InvokesOf(Prog, "main")
  /\ Reachable(Prog).live = {"T"}
  /\ "I" \in Satisfies("U")
  /\ <<FuncID["main"], FuncID["TM"]>> \in EdgePairs(Graph(""))
  /\ <<FuncID["main"], FuncID["UM"]>> \notin EdgePairs(Graph(""))

\* C8: under CHA an interface call has exactly one edge to the method of
\* every concrete type that satisfies the interface (when the allow-list
\* retains it), whether or not the type is instantiated or the caller reachable
C8_ChaAllSatisfying ==
  (Has("cha") /\ Graph("cha").Algorithm = "cha") =>
    \A f \in FuncKeys : \A im \in InvokesOf(Prog, f) :
      \A t \in {u \in ConcreteTypes : im[1] \in Satisfies(u)} :
        Retained(f, MethodSet(t)[im[2]]) =>
          Cardinality({i \in 1..Len(Graph("cha").Edges) :
                         /\ Graph("cha").Edges[i].Source = FuncID[f]
                         /\ Graph("cha").Edges[i].Target = FuncID[MethodSet(t)[im[2]]]}) = 1

\* B calls M through I, B is not reachable from main and no type is
\* instantiated: the CHA graph still has the edge from B to the M of U
C8_Witness ==
  /\ Has("cha") /\ Graph("cha").Algorithm = "cha"
  /\ <<"I", "M">> \in InvokesOf(Prog, "B")
  /\ "B" \notin Reachable(Prog).reach
  /\ Reachable(Prog).live = {}
  /\ <<FuncID["B"], FuncID["UM"]>> \in EdgePairs(Graph("cha"))
  /\ <<FuncID["B"], FuncID["TM"]>> \in EdgePairs(Graph("cha"))

\* the functions at the ends of the retained edges of a call graph
Endpoints(cg) ==
  UNION {{e.caller, e.callee} : e \in {x \in GraphEdges(cg) : Retained(x.caller, x.callee)}}

\* C10: two distinct functions never receive the same identity, so that two
\* distinct functions never collapse into one node of the graph
C10_IdentitiesUnique ==
  \A a \in Requests : Has(a) =>
    /\ \A f, g \in Endpoints(Underlying(a)) : f # g => FuncID[f] # FuncID[g]
    /\ Len(Graph(a).Nodes) = Cardinality(Endpoints(Underlying(a)))

\* runAnalysis built a call graph for an RTA request and wrote its output
RanRta ==
  /\ analysis # None /\ analysis[1].err = ""
  /\ cli.cgAlgo = "rta" /\ WantsCallGraph(cli.analysisLevel)
  /\ analysis[1].out[1].CallGraph # <<>>

\* C6: when RTA falls back to CHA because the program has no entry point,
\* the issues list reported to the caller holds an issue of severity info
C6_FallbackIsReported ==
  (RanRta /\ analysis[1].out[1].CallGraph[1].Algorithm = "cha-fallback") =>
    \E i \in 1..Len(analysis[1].out[1].Issues) :
      analysis[1].out[1].Issues[i].Severity = "info"

\* the identity the documentation gives the function described by d
DocumentedID(d) ==
  IF d.pkg = NoPkg THEN d.name
  ELSE IF d.recvKind = "none" THEN d.pkg \o <<".">> \o d.name
  ELSE d.pkg \o <<".", "(">> \o (IF d.recvKind = "pointer" THEN <<"*">> ELSE <<>>)
         \o d.tname \o <<")", ".">> \o d.name

\* C9: stableFuncID returns package.name for a function, package.(T).name
\* for a value-receiver method, the same with a star before T for a
\* pointer receiver, and the bare name without an owning package
C9_IdentityFormat ==
  (ident # None /\ ident[1].id # None) => ident[1].id[1] = DocumentedID(ident[1].f)

(***************************************************************************)
(* Identities against the symbol table (checked under SpecDecl).           *)
(***************************************************************************)
\* the function and method declarations of an analysed package: a method
\* has a receiver type, which may have a type parameter
DeclInputs ==
  {d \in [pkg : {PkgP, PkgQ},
          name : {<<"M">>, <<"C">>, <<"B">>, <<"m", "a", "i", "n">>},
          recvKind : {"none", "value", "pointer"},
          tname : {<<"T">>, <<"U">>}, generic : BOOLEAN] :
     d.recvKind = "none" => d.tname = <<"T">> /\ ~d.generic}

\* Signature.Recv().Type().String() of the declared method: the qualified
\* type name, followed by its type parameter list when the type is generic
DeclRecvString(d) ==
  IF d.recvKind = "none" THEN NoRecv
  ELSE (IF d.recvKind = "pointer" THEN <<"*">> ELSE <<>>) \o d.pkg \o <<".">> \o d.tname
       \o (IF d.generic THEN <<"[", "K", "]">> ELSE <<>>)

\* the *ssa.Function of the declaration d
DeclFn(d) ==
  [pkg |-> d.pkg, name |-> d.name, recv |-> DeclRecvString(d),
   str |-> d.pkg \o <<".">> \o d.name, pos |-> NoPos]

\* extractBaseTypeName of the receiver expression: the identifier under
\* the star and the index expression
extractBaseTypeName(d) == d.tname

\* extractReceiverInfo(fn.Recv)
extractReceiverInfo(d) ==
  [typeName |-> extractBaseTypeName(d), isPtr |-> d.recvKind = "pointer"]

\* the QualifiedName extractCallable gives the declaration d
extractCallable(d) ==
  IF d.recvKind # "none"
  THEN LET r == extractReceiverInfo(d)
       IN IF r.isPtr
          THEN d.pkg \o <<".", "(", "*">> \o r.typeName \o <<")", ".">> \o d.name
          ELSE d.pkg \o <<".">> \o r.typeName \o <<".">> \o d.name
  ELSE d.pkg \o <<".">> \o d.name

InitDecl ==
  /\ project \in {p \in Programs : p.body["main"] = <<>> /\ p.body["B"] = <<>>}
  /\ result = None
  /\ cfg = [EmitPositions |-> "", OnlyPkg |-> <<>>]
  /\ built = [a \in Requests |-> None]
  /\ cli = NoCli
  /\ analysis = None
  /\ ident \in {<<[f |-> d, id |-> None, qn |-> None]>> : d \in DeclInputs}
  /\ graph = [a \in Requests |-> None]
  /\ mainProc = NoProc
  /\ loop = None
  /\ rta = None
  /\ symtab = None

\* symbols.Extract records the declaration
ExtractCallableCall ==
  /\ ident # None /\ ident[1].qn = None
  /\ ident' = <<[ident[1] EXCEPT !.qn = <<extractCallable(ident[1].f)>>]>>
  /\ UNCHANGED <<project, result, cfg, built, cli, analysis, graph, mainProc, loop, rta, symtab>>

\* callgraph.Build names the function of the declaration
DeclIdentityCall ==
  /\ ident # None /\ ident[1].id = None
  /\ ident' = <<[ident[1] EXCEPT !.id = <<stableFuncID(DeclFn(ident[1].f))>>]>>
  /\ UNCHANGED <<project, result, cfg, built, cli, analysis, graph, mainProc, loop, rta, symtab>>

NextDecl == ExtractCallableCall \/ DeclIdentityCall

SpecDecl == InitDecl /\ [][NextDecl]_vars

\* C11: the identity the call graph gives a declared function or method is
\* the qualified name under which the symbol table records it
C11_IdentityIsQualifiedName ==
  (ident # None /\ ident[1].id # None /\ ident[1].qn # None) =>
    ident[1].id[1] = ident[1].qn[1]

\* C12: the node list of every returned graph is strictly ascending by id
\* and its edge list strictly ascending by (source, target)
C12_SortedOutput ==
  \A a \in Requests : Has(a) =>
    /\ \A i \in 1..(Len(Graph(a).Nodes) - 1) :
         StrLess(Graph(a).Nodes[i].ID, Graph(a).Nodes[i + 1].ID)
    /\ \A i \in 1..(Len(Graph(a).Edges) - 1) :
         \/ StrLess(Graph(a).Edges[i].Source, Graph(a).Edges[i + 1].Source)
         \/ /\ Graph(a).Edges[i].Source = Graph(a).Edges[i + 1].Source
            /\ StrLess(Graph(a).Edges[i].Target, Graph(a).Edges[i + 1].Target)

\* a graph of at least four nodes in which two consecutive edges leave the
\* same source
C12_Witness ==
  \E a \in Requests :
    /\ Has(a) /\ Len(Graph(a).Nodes) >= 4
    /\ \E i \in 1..(Len(Graph(a).Edges) - 1) :
         Graph(a).Edges[i].Source = Graph(a).Edges[i + 1].Source
    /\ \E i \in 1..(Len(Graph(a).Edges) - 1) :
         Graph(a).Edges[i].Source # Graph(a).Edges[i + 1].Source

\* the package path of function k contains an entry of the allow-list
InsideAllowList(k) ==
  \E i \in 1..Len(cfg.OnlyPkg) : Fn(k).pkg # NoPkg /\ Contains(Fn(k).pkg, cfg.OnlyPkg[i])

\* C13: with a non-empty allow-list an edge is left out exactly when the
\* package path of neither end contains an entry; a kept edge has the nodes
\* of both ends; with an empty allow-list no edge is left out
C13_AllowListFilter ==
  \A a \in Requests : Has(a) =>
    \A e \in GraphEdges(Underlying(a)) :
      LET kept == <<FuncID[e.caller], FuncID[e.callee]>> \in EdgePairs(Graph(a))
      IN /\ cfg.OnlyPkg = <<>> => kept
         /\ cfg.OnlyPkg # <<>> =>
              (kept <=> (InsideAllowList(e.caller) \/ InsideAllowList(e.callee)))
         /\ kept => {FuncID[e.caller], FuncID[e.callee]} \subseteq NodeIDs(Graph(a))

\* under a non-empty allow-list one edge with exactly one end inside is
\* kept and another edge is left out
C13_Witness ==
  \E a \in Requests :
    /\ Has(a) /\ cfg.OnlyPkg # <<>>
    /\ \E e \in GraphEdges(Underlying(a)) :
         /\ InsideAllowList(e.callee) /\ ~InsideAllowList(e.caller)
         /\ <<FuncID[e.caller], FuncID[e.callee]>> \in EdgePairs(Graph(a))
         /\ FuncID[e.caller] \in NodeIDs(Graph(a))
    /\ \E e \in GraphEdges(Underlying(a)) :
         <<FuncID[e.caller], FuncID[e.callee]>> \notin EdgePairs(Graph(a))

\* the allow-list of the run is not empty and no package path of the
\* program contains one of its entries
NoPackageMatches ==
  /\ cli.onlyPkg # <<>>
  /\ \A pp \in {PkgP, PkgQ} : \A i \in 1..Len(cli.onlyPkg) : ~Contains(pp, cli.onlyPkg[i])

\* C14: a run for a call graph whose allow-list matches no package path
\* ends without error, with a call graph of zero nodes and zero edges and
\* with no issue
C14_NoMatchIsEmptyGraph ==
  (analysis # None /\ NoPackageMatches /\ WantsCallGraph(cli.analysisLevel)
     /\ cli.format = "json") =>
    /\ analysis[1].err = ""
    /\ analysis[1].out[1].CallGraph # <<>>
    /\ analysis[1].out[1].CallGraph[1].Nodes = <<>>
    /\ analysis[1].out[1].CallGraph[1].Edges = <<>>
    /\ analysis[1].out[1].Issues = <<>>

\* the first edge of cg out of function f to a callee of identity id: the
\* one whose call site the output edge retains
FirstTo(cg, f, id) ==
  LET idx == {i \in 1..Len(cg.out[f]) : FuncID[cg.out[f][i].callee] = id}
  IN cg.out[f][CHOOSE i \in idx : \A j \in idx : i <= j]

\* the output edges of graph g from source s to target t
EdgesOf(g, s, t) ==
  {g.Edges[i] : i \in {j \in 1..Len(g.Edges) : g.Edges[j].Source = s /\ g.Edges[j].Target = t}}

\* every retained call of every built graph has an output edge, and each
\* output edge of its pair has the kind K gives the retained call site
KindsFollow(K(_)) ==
  \A a \in Requests : Has(a) =>
    \A e \in GraphEdges(Underlying(a)) :
      Retained(e.caller, e.callee) =>
        LET es == EdgesOf(Graph(a), FuncID[e.caller], FuncID[e.callee])
            first == FirstTo(Underlying(a), e.caller, FuncID[e.callee])
        IN es # {} /\ \A x \in es : first.site # <<>> /\ x.Kind = K(first.site[1].mode)

\* the kinds as the specification names them
NamedKind(mode) ==
  CASE mode = "defer" -> "deferred" [] mode = "go" -> "concurrent-spawn" [] OTHER -> "call"

\* the kinds as the schema of the edge names them
SchemaKind(mode) ==
  CASE mode = "defer" -> "defer" [] mode = "go" -> "go" [] OTHER -> "call"

SitelessEdge == [caller |-> "init", callee |-> "B", site |-> <<>>]

\* the graph cg with the edge without call site added
WithSiteless(cg) ==
  [nodes |-> cg.nodes \cup {"init", "B"},
   out   |-> [f \in FuncKeys |->
                IF f = "init" THEN Append(cg.out[f], SitelessEdge) ELSE cg.out[f]]]

\* the graphs the algorithm may hand to the conversion
LibraryGraphs(cg) == {cg, WithSiteless(cg)}

InitConv ==
  /\ project \in {p \in Programs : Len(p.body["main"]) <= 1}
  /\ result \in {LoadWithSSA(project, [OnlyPkg |-> <<>>, NeedSSA |-> b]).result :
                   b \in BOOLEAN}
  /\ cfg \in [EmitPositions : {"detailed", "minimal"}, OnlyPkg : OnlyPkgs]
  /\ built = [a \in Requests |-> None]
  /\ cli = NoCli
  /\ analysis = None
  /\ ident = None
  /\ graph = [a \in Requests |-> None]
  /\ mainProc = NoProc
  /\ loop = None
  /\ rta = None
  /\ symtab = None

\* one call of callgraph.Build with algorithm a
ConvCall(a) ==
  /\ result # None
  /\ IF result[1].SSAProgram = <<>>
     THEN /\ built' = [built EXCEPT ![a] = <<Build(result[1], ConfigOf(a), <<>>)>>]
          /\ graph' = graph
     ELSE LET sel == SelectGraph(result[1], ConfigOf(a))
          IN \E g \in LibraryGraphs(sel.cg) : \E order \in Orders(g) :
               /\ built' = [built EXCEPT ![a] =
                              <<[cg |-> <<Convert([cg |-> g, algo |-> sel.algo],
                                                  result[1].Root, ConfigOf(a), order)>>,
                                 err |-> ""]>>]
               /\ graph' = [graph EXCEPT ![a] = <<g>>]
  /\ UNCHANGED <<project, result, cfg, cli, analysis, ident, mainProc, loop, rta, symtab>>

NextConv == \E a \in Requests : ConvCall(a)

SpecConv == InitConv /\ [][NextConv]_vars

\* C16: every edge of every returned graph carries one of the three
\* call-site kinds (call; go or concurrent-spawn; defer or deferred), never
\* an empty or other kind, also when its call has no call-site instruction
C16_EveryEdgeHasKind ==
  \A a \in Requests : Has(a) =>
    \A i \in 1..Len(Graph(a).Edges) :
      Graph(a).Edges[i].Kind \in {"call", "go", "defer", "concurrent-spawn", "deferred"}

\* the graph Build converted for request a
Converted(a) == graph[a][1]

\* C17: under minimal no node has a position and no edge a call-site
\* position; under detailed a node has a position whenever the position of
\* its function is valid, and an edge the position of its retained call
\* site whenever that is valid
C17_PositionsFollowVerbosity ==
  \A a \in Requests : Has(a) =>
    /\ cfg.EmitPositions = "minimal" =>
         /\ \A i \in 1..Len(Graph(a).Nodes) : Graph(a).Nodes[i].Position = <<>>
         /\ \A i \in 1..Len(Graph(a).Edges) : Graph(a).Edges[i].CallSite = <<>>
    /\ cfg.EmitPositions = "detailed" =>
         \A e \in GraphEdges(Converted(a)) :
           Retained(e.caller, e.callee) =>
             /\ \A k \in {e.caller, e.callee} : \A i \in 1..Len(Graph(a).Nodes) :
                  (Graph(a).Nodes[i].ID = FuncID[k] /\ Fn(k).pos.line > 0) =>
                    Graph(a).Nodes[i].Position # <<>>
             /\ LET first == FirstTo(Converted(a), e.caller, FuncID[e.callee])
                IN (first.site # <<>> /\ first.site[1].pos.line > 0) =>
                     \A x \in EdgesOf(Graph(a), FuncID[e.caller], FuncID[e.callee]) :
                       /\ x.CallSite # <<>>
                       /\ x.CallSite[1].StartLine = first.site[1].pos.line

\* under detailed: a node with and a node without position, an edge with
\* and an edge without call-site position
C17_Witness ==
  \E a \in Requests :
    /\ Has(a) /\ cfg.EmitPositions = "detailed"
    /\ \E i, j \in 1..Len(Graph(a).Nodes) :
         Graph(a).Nodes[i].Position = <<>> /\ Graph(a).Nodes[j].Position # <<>>
    /\ \E i, j \in 1..Len(Graph(a).Edges) :
         Graph(a).Edges[i].CallSite = <<>> /\ Graph(a).Edges[j].CallSite # <<>>

\* C18: Build returns an error and no graph exactly when the LoadResult
\* has no SSA program; with an SSA program it returns a graph and no
\* error, under either algorithm and with or without entry point
C18_ErrorIffNoSSA ==
  \A a \in Requests : built[a] # None =>
    /\ (built[a][1].err # "" /\ built[a][1].cg = <<>>) <=> result[1].SSAProgram = <<>>
    /\ result[1].SSAProgram # <<>> => (built[a][1].err = "" /\ built[a][1].cg # <<>>)

\* Build was called on a LoadResult without SSA program and returned the
\* error
C18_Witness ==
  /\ result[1].SSAProgram = <<>>
  /\ built["cha"] # None /\ built["cha"][1].err # ""
  /\ built[""] # None /\ built[""][1].cg = <<>>

(***************************************************************************)
(* SpecStage: the stages of runAnalysis after the load, on a LoadResult    *)
(* with or without SSA program. In runAnalysis itself LoadWithSSA is asked *)
(* for the SSA program whenever the level asks for a call graph; here the  *)
(* two are independent, so that the handling of a failed Build is run.     *)
(***************************************************************************)
InitStage ==
  /\ project \in {p \in Programs : Len(p.body["main"]) <= 1}
  /\ cli \in [analysisLevel : Levels, cgAlgo : {"rta", "cha"},
              emitPositions : {"detailed", "minimal"}, onlyPkg : {<<>>, <<<<"p">>>>},
              format : {"json", "msgpack"}]
  /\ result \in {LoadWithSSA(project, [OnlyPkg |-> cli.onlyPkg, NeedSSA |-> b]).result :
                   b \in BOOLEAN}
  /\ cfg = [EmitPositions |-> "", OnlyPkg |-> <<>>]
  /\ built = [a \in Requests |-> None]
  /\ analysis = None
  /\ ident = None
  /\ graph = [a \in Requests |-> None]
  /\ mainProc = NoProc
  /\ loop = None
  /\ rta = None
  /\ symtab = None

\* runAnalysis from the symbol-table stage on
RunStages ==
  /\ analysis = None /\ result # None
  /\ \E b \in (IF ~WantsCallGraph(cli.analysisLevel) THEN {<<>>}
               ELSE IF result[1].SSAProgram = <<>>
               THEN {<<Build(result[1], CgCfg(cli), <<>>)>>}
               ELSE LET sel == SelectGraph(result[1], CgCfg(cli))
                    IN {<<[cg |-> <<Convert(sel, Root, CgCfg(cli), order)>>,
                           err |-> ""]>> : order \in Orders(sel.cg)}) :
       analysis' = IF Write(cli.format) # ""
                   THEN <<[err |-> "write output", out |-> <<>>]>>
                   ELSE <<[err |-> "", out |-> <<Assemble(cli, result[1], b)>>]>>
  /\ UNCHANGED <<project, result, cfg, built, cli, ident, graph, mainProc, loop, rta, symtab>>

NextStage == RunStages

SpecStage == InitStage /\ [][NextStage]_vars

\* the call-graph stage of the run failed: Build was called without SSA
\* program
CallGraphStageFailed ==
  analysis # None /\ WantsCallGraph(cli.analysisLevel) /\ result[1].SSAProgram = <<>>

validateConfig_AnyFormat(cl) ==
  IF ~cl.inputExists THEN [err |-> "input path does not exist", cfg |-> cl]
  ELSE IF cl.analysisLevel \notin {"symbol_table", "call_graph", "pdg", "sdg", "full"}
  THEN [err |-> "invalid analysis-level", cfg |-> cl]
  ELSE IF ToLower(cl.cgAlgo) # "cha" /\ ToLower(cl.cgAlgo) # "rta"
  THEN [err |-> "invalid cg algorithm", cfg |-> cl]
  ELSE IF cl.emitPositions # "detailed" /\ cl.emitPositions # "minimal"
  THEN [err |-> "invalid emit-positions", cfg |-> [cl EXCEPT !.cgAlgo = ToLower(@)]]
  ELSE [err |-> "", cfg |-> [cl EXCEPT !.cgAlgo = ToLower(@)]]

\* validateConfig(&cfg): the error ("" is nil) and the configuration, in
\* which the algorithm is lower-cased
validateConfig(cl) ==
  IF ~cl.inputExists THEN [err |-> "input path does not exist", cfg |-> cl]
  ELSE IF cl.analysisLevel \notin {"symbol_table", "call_graph", "pdg", "sdg", "full"}
  THEN [err |-> "invalid analysis-level", cfg |-> cl]
  ELSE IF cl.format # "json" /\ cl.format # "msgpack"
  THEN [err |-> "invalid format", cfg |-> cl]
  ELSE IF ToLower(cl.cgAlgo) # "cha" /\ ToLower(cl.cgAlgo) # "rta"
  THEN [err |-> "invalid cg algorithm", cfg |-> cl]
  ELSE IF cl.emitPositions # "detailed" /\ cl.emitPositions # "minimal"
  THEN [err |-> "invalid emit-positions", cfg |-> [cl EXCEPT !.cgAlgo = ToLower(@)]]
  ELSE [err |-> "", cfg |-> [cl EXCEPT !.cgAlgo = ToLower(@)]]

\* the configurations parseFlags hands to main
Flags ==
  [analysisLevel : {"symbol_table", "call_graph", "pdg", "full", "symbols"},
   cgAlgo : {"rta", "CHA", "pta"}, emitPositions : {"detailed", "minimal", "none"},
   onlyPkg : {<<>>, <<<<"z">>>>}, format : {"json", "msgpack", "xml"},
   inputExists : BOOLEAN, showVersion : BOOLEAN]

InitCli ==
  /\ project \in {p \in Programs : p.body["main"] = <<>> /\ p.body["B"] = <<>>}
  /\ result = None
  /\ cfg = [EmitPositions |-> "", OnlyPkg |-> <<>>]
  /\ built = [a \in Requests |-> None]
  /\ cli \in Flags
  /\ analysis = None
  /\ ident = None
  /\ graph = [a \in Requests |-> None]
  /\ mainProc = [pc |-> "start", exit |-> <<>>]
  /\ loop = None
  /\ rta = None
  /\ symtab = None

\* main up to the call of runAnalysis: --version, then validateConfig
MainValidate ==
  /\ mainProc.pc = "start"
  /\ IF cli.showVersion
     THEN mainProc' = [pc |-> "done", exit |-> <<0>>] /\ cli' = cli
     ELSE LET v == validateConfig(cli)
          IN /\ cli' = v.cfg
             /\ mainProc' = IF v.err # "" THEN [pc |-> "done", exit |-> <<2>>]
                            ELSE [pc |-> "run", exit |-> <<>>]
  /\ UNCHANGED <<project, result, cfg, built, analysis, ident, graph, loop, rta, symtab>>

\* main calls runAnalysis(cfg)
MainRun == mainProc.pc = "run" /\ RunAnalysis

\* main after runAnalysis returned
MainExit ==
  /\ mainProc.pc = "run" /\ analysis # None
  /\ mainProc' = [pc |-> "done", exit |-> <<IF analysis[1].err # "" THEN 1 ELSE 0>>]
  /\ UNCHANGED <<project, result, cfg, built, cli, analysis, ident, graph, loop, rta, symtab>>

NextCli == MainValidate \/ MainRun \/ MainExit

SpecCli == InitCli /\ [][NextCli]_vars

\* the configuration passes the validation: the input exists and level,
\* format, algorithm and position verbosity are among the accepted values
AcceptedConfig ==
  /\ cli.inputExists
  /\ cli.analysisLevel \in Levels
  /\ cli.format \in {"json", "msgpack"}
  /\ cli.cgAlgo \in {"cha", "rta", "CHA", "RTA"}
  /\ cli.emitPositions \in {"detailed", "minimal"}

\* C20: the process exits with 2 exactly when the validation of the
\* configuration fails, and then nothing was loaded or written; with 1
\* exactly when runAnalysis returned an error; with 0 in every other run
C20_ExitCodes ==
  mainProc.pc = "done" =>
    /\ mainProc.exit \in {<<0>>, <<1>>, <<2>>}
    /\ mainProc.exit = <<2>> <=> (~cli.showVersion /\ ~AcceptedConfig)
    /\ mainProc.exit = <<2>> => (result = None /\ analysis = None)
    /\ mainProc.exit = <<1>> <=> (analysis # None /\ analysis[1].err # "")

\* a run rejected by the validation ended with 2
C20_Witness ==
  /\ mainProc.pc = "done" /\ mainProc.exit = <<2>>
  /\ cli.format = "xml" /\ cli.analysisLevel = "full"

(***************************************************************************)
(* SpecSkip: Build over graphs that hold malformed edges.                  *)
(***************************************************************************)
\* a nil edge (or an edge between nil nodes) and an edge whose callee node
\* has no function
NilEdge == [caller |-> NilFunc, callee |-> NilFunc, site |-> <<>>]
NilCalleeEdge == [caller |-> "main", callee |-> NilFunc, site |-> <<>>]

\* the graph cg with the two malformed edges around the edges of main
WithMalformed(cg) ==
  [nodes |-> cg.nodes \cup {"main"},
   out   |-> [f \in FuncKeys |->
                IF f = "main" THEN <<NilEdge>> \o cg.out[f] \o <<NilCalleeEdge>>
                ELSE cg.out[f]]]

\* the well-formed edges of a graph
WellFormed(cg) ==
  [nodes |-> cg.nodes,
   out   |-> [f \in FuncKeys |->
                SelectSeq(cg.out[f],
                          LAMBDA e : e.caller # NilFunc /\ e.callee # NilFunc)]]

\* the number of malformed edges of a graph
RECURSIVE CountMalformed(_, _)
CountMalformed(cg, fs) ==
  IF fs = {} THEN 0
  ELSE LET f == CHOOSE x \in fs : TRUE
       IN Len(cg.out[f]) - Len(WellFormed(cg).out[f]) + CountMalformed(cg, fs \ {f})

\* the skipped call sites Build reports: it returns the graph and the
\* error, and the graph has the fields Algorithm, Nodes and Edges only
SkippedReported(b) == IF "Skipped" \in DOMAIN b THEN b.Skipped ELSE 0

InitSkip ==
  /\ project \in {p \in Programs : Len(p.body["main"]) <= 1}
  /\ result = LoadWithSSA(project, [OnlyPkg |-> <<>>, NeedSSA |-> TRUE]).result
  /\ cfg \in [EmitPositions : {"detailed", "minimal"}, OnlyPkg : OnlyPkgs]
  /\ built = [a \in Requests |-> None]
  /\ cli = NoCli
  /\ analysis = None
  /\ ident = None
  /\ graph = [a \in Requests |-> None]
  /\ mainProc = NoProc
  /\ loop = None
  /\ rta = None
  /\ symtab = None

\* one call of callgraph.Build with algorithm a
SkipCall(a) ==
  /\ result # None
  /\ LET sel == SelectGraph(result[1], ConfigOf(a))
     IN \E g \in {sel.cg, WithMalformed(sel.cg)} : \E order \in Orders(g) :
          /\ built' = [built EXCEPT ![a] =
                         <<[cg |-> <<Convert([cg |-> g, algo |-> sel.algo],
                                             result[1].Root, ConfigOf(a), order)>>,
                            err |-> ""]>>]
          /\ graph' = [graph EXCEPT ![a] = <<g>>]
  /\ UNCHANGED <<project, result, cfg, cli, analysis, ident, mainProc, loop, rta, symtab>>

NextSkip == \E a \in Requests : SkipCall(a)

SpecSkip == InitSkip /\ [][NextSkip]_vars

\* malformed edges do not fail the build and do not change the nodes and
\* edges returned: the graph is one Build returns without them
SkipIsLocal ==
  \A a \in Requests : Has(a) =>
    /\ built[a][1].err = ""
    /\ \E order \in Orders(WellFormed(Converted(a))) :
         Graph(a) = Convert([cg |-> WellFormed(Converted(a)), algo |-> Graph(a).Algorithm],
                            result[1].Root, ConfigOf(a), order)

\* the skipped call sites are counted in what Build returns
SkipsCounted ==
  \A a \in Requests : Has(a) =>
    SkippedReported(Graph(a)) = CountMalformed(Converted(a), FuncKeys)

\* C21: a malformed edge is skipped where it is met: the build does not
\* fail, the other edges and nodes are returned as without it, and the
\* skipped call sites are counted
C21_MalformedSkippedAndCounted == SkipIsLocal /\ SkipsCounted

(***************************************************************************)
(* SpecLoop: the loop of Build over the edges of the graph, one edge at a  *)
(* time, then the sort.                                                    *)
(***************************************************************************)
\* the states in which Build enters the loop: the algorithm requested, the
\* edges in the order the two nested loops will meet them, the empty maps
LoopStarts(prog, res) ==
  UNION {{[a |-> a, done |-> <<>>,
           todo |-> Flatten([i \in 1..Len(order) |->
                               SelectGraph(res, ConfigOf(a)).cg.out[order[i]]]),
           acc |-> [nodeSet |-> <<>>, edgeSet |-> <<>>]] :
            order \in Orders(SelectGraph(res, ConfigOf(a)).cg)} : a \in Requests}

InitLoop ==
  /\ project \in {p \in Programs : p.pkgName = "main"}
  /\ result = LoadWithSSA(project, [OnlyPkg |-> <<>>, NeedSSA |-> TRUE]).result
  /\ cfg \in [EmitPositions : {"detailed", "minimal"}, OnlyPkg : OnlyPkgs]
  /\ built = [a \in Requests |-> None]
  /\ cli = NoCli
  /\ analysis = None
  /\ ident = None
  /\ graph = [a \in Requests |-> None]
  /\ mainProc = NoProc
  /\ loop \in {<<l>> : l \in LoopStarts(project, result[1])}
  /\ rta = None
  /\ symtab = None

\* one iteration of the inner loop of Build
LoopStep ==
  /\ loop # None /\ loop[1].todo # <<>>
  /\ loop' = <<[loop[1] EXCEPT
                  !.acc = ProcessEdge(@, Head(loop[1].todo), result[1].Root,
                                      ConfigOf(loop[1].a)),
                  !.todo = Tail(@),
                  !.done = Append(@, Head(loop[1].todo))]>>
  /\ UNCHANGED <<project, result, cfg, built, cli, analysis, ident, graph, mainProc, rta, symtab>>

\* after the loop: Build sorts the values of the two maps and returns
LoopFinish ==
  /\ loop # None /\ loop[1].todo = <<>> /\ built[loop[1].a] = None
  /\ built' = [built EXCEPT ![loop[1].a] =
                 <<[cg |-> <<[Algorithm |-> SelectGraph(result[1], ConfigOf(loop[1].a)).algo,
                              Nodes |-> SortNodes(Values(loop[1].acc.nodeSet)),
                              Edges |-> SortEdges(Values(loop[1].acc.edgeSet))]>>,
                    err |-> ""]>>]
  /\ UNCHANGED <<project, result, cfg, cli, analysis, ident, graph, mainProc, loop, rta, symtab>>

NextLoop == LoopStep \/ LoopFinish

SpecLoop == InitLoop /\ [][NextLoop]_vars

\* the (source, target) pair of identities of an edge of the graph
PairOf(e) == <<FuncID[e.caller], FuncID[e.callee]>>

\* the edge stored for a pair of identities
StoredFor(pair) ==
  {x \in Values(loop[1].acc.edgeSet) : x.Source = pair[1] /\ x.Target = pair[2]}

\* the first retained edge of the pair among the edges done
FirstDone(pair) ==
  LET idx == {i \in 1..Len(loop[1].done) :
                /\ PairOf(loop[1].done[i]) = pair
                /\ Retained(loop[1].done[i].caller, loop[1].done[i].callee)}
  IN loop[1].done[CHOOSE i \in idx : \A j \in idx : i <= j]

\* the edge of every pair met so far has the kind and the position of the
\* first call site met for the pair
FirstSiteKept ==
  loop # None =>
    \A i \in 1..Len(loop[1].done) :
      Retained(loop[1].done[i].caller, loop[1].done[i].callee) =>
        LET first == FirstDone(PairOf(loop[1].done[i])).site[1]
            es == StoredFor(PairOf(loop[1].done[i]))
        IN /\ Cardinality(es) = 1
           /\ \A x \in es :
                /\ x.Kind = SchemaKind(first.mode)
                /\ IF cfg.EmitPositions = "detailed" /\ first.pos.line > 0
                   THEN x.CallSite # <<>> /\ x.CallSite[1].StartLine = first.pos.line
                                          /\ x.CallSite[1].StartColumn = first.pos.col
                   ELSE x.CallSite = <<>>

\* an edge whose pair has its edge already changes neither map
LaterSiteChangesNothing ==
  (loop # None /\ loop[1].todo # <<>> /\ StoredFor(PairOf(Head(loop[1].todo))) # {})
    => loop'[1].acc = loop[1].acc

\* C22: the edge of a pair keeps the kind and the call-site position of
\* the first call site met, and every later call site of the pair leaves
\* the edge set and the node set unchanged
C22_FirstSiteWins == [](FirstSiteKept) /\ [][LaterSiteChangesNothing]_vars

\* main spawns B and then calls B; both edges are done and the edge
\* stored has kind go
C22_Witness ==
  /\ loop # None /\ Len(loop[1].done) >= 2
  /\ \E i, j \in 1..Len(loop[1].done) :
       /\ i < j /\ PairOf(loop[1].done[i]) = PairOf(loop[1].done[j])
       /\ loop[1].done[i].site[1].mode = "go" /\ loop[1].done[j].site[1].mode = "call"
       /\ \A x \in StoredFor(PairOf(loop[1].done[i])) : x.Kind = "go"
       /\ StoredFor(PairOf(loop[1].done[i])) # {}

(***************************************************************************)
(* SpecRta: the RTA worklist fixpoint one queue item and one instruction   *)
(* at a time.  Several workers take items from the queue in any order;     *)
(* visiting one instruction updates the shared state atomically.           *)
(***************************************************************************)
NWorkers == 2
Workers == 1..NWorkers

\* programs with recursion: B may also call itself or main
RecInstr == BInstr \cup {Call("call", "B"), Call("call", "main")}
RtaPrograms ==
  {[pkgName |-> "main", body |-> BodiesOf(mb, bb)] :
     mb \in Bodies(MainInstr, MaxBody), bb \in Bodies(RecInstr, 1)}

RtaRoots == Roots(project, result[1].SSAPackages)

\* the queue without its k-th item
RtaDequeue(q, k) == SubSeq(q, 1, k - 1) \o SubSeq(q, k + 1, Len(q))

InitRta ==
  /\ project \in RtaPrograms
  /\ result = LoadWithSSA(project, [OnlyPkg |-> <<>>, NeedSSA |-> TRUE]).result
  /\ cfg = [EmitPositions |-> "detailed", OnlyPkg |-> <<>>]
  /\ built = [a \in Requests |-> None]
  /\ cli = NoCli
  /\ analysis = None
  /\ ident = None
  /\ graph = [a \in Requests |-> None]
  /\ mainProc = NoProc
  /\ loop = None
  /\ rta = <<[st |-> [queue |-> RtaRoots, reach |-> Range(RtaRoots), live |-> {},
                      sites |-> <<>>, out |-> [f \in FuncKeys |-> <<>>]],
              at |-> [w \in Workers |-> None],
              visited |-> {},
              log |-> <<>>]>>
  /\ symtab = None

\* worker w takes an item from the queue
RtaTake(w) ==
  /\ rta # None /\ rta[1].at[w] = None
  /\ \E k \in 1..Len(rta[1].st.queue) :
       rta' = <<[rta[1] EXCEPT
                   !.st.queue = RtaDequeue(@, k),
                   !.at[w] = <<[f |-> rta[1].st.queue[k], i |-> 1]>>,
                   !.visited = @ \cup {rta[1].st.queue[k]}]>>
  /\ UNCHANGED <<project, result, cfg, built, cli, analysis, ident, graph, mainProc, loop, symtab>>

\* worker w visits the next instruction of the function it holds
RtaStep(w) ==
  /\ rta # None /\ rta[1].at[w] # None
  /\ LET f == rta[1].at[w][1].f
         i == rta[1].at[w][1].i
     IN /\ i <= Len(project.body[f])
        /\ rta' = <<[rta[1] EXCEPT
                       !.st = RtaVisitInstr(@, f, i, project.body[f][i]),
                       !.at[w] = <<[f |-> f, i |-> i + 1]>>,
                       !.log = Append(@, [f |-> f, i |-> i, w |-> w,
                                          live |-> rta[1].st.live])]>>
  /\ UNCHANGED <<project, result, cfg, built, cli, analysis, ident, graph, mainProc, loop, symtab>>

\* worker w has visited the whole body
RtaFinish(w) ==
  /\ rta # None /\ rta[1].at[w] # None
  /\ rta[1].at[w][1].i > Len(project.body[rta[1].at[w][1].f])
  /\ rta' = <<[rta[1] EXCEPT !.at[w] = None]>>
  /\ UNCHANGED <<project, result, cfg, built, cli, analysis, ident, graph, mainProc, loop, symtab>>

NextRta == \E w \in Workers : RtaTake(w) \/ RtaStep(w) \/ RtaFinish(w)

\* the workers keep running while there is something to do
SpecRta == InitRta /\ [][NextRta]_vars /\ WF_vars(NextRta)

\* the fixpoint has ended: the queue is empty and no worker holds an item
RtaDone == rta # None /\ rta[1].st.queue = <<>> /\ \A w \in Workers : rta[1].at[w] = None

\* the two sets stay within the functions and the types of the program, and
\* a function is in the queue at most once and never again once taken
RtaBounded ==
  rta # None =>
    /\ rta[1].st.reach \subseteq FuncKeys
    /\ rta[1].st.live \subseteq ConcreteTypes
    /\ Range(rta[1].st.queue) \subseteq rta[1].st.reach
    /\ Range(rta[1].st.queue) \cap rta[1].visited = {}
    /\ Cardinality(Range(rta[1].st.queue)) = Len(rta[1].st.queue)

\* a step of the fixpoint removes nothing from either set
RtaNeverShrinks ==
  rta # None => /\ rta[1].st.reach \subseteq rta'[1].st.reach
                /\ rta[1].st.live \subseteq rta'[1].st.live

\* C23: the RTA worklist fixpoint terminates, the queue becomes empty: the
\* reachable functions and the live types never shrink and stay within the
\* functions and types of the program, so no function is queued twice
C23_RtaTerminates == <>RtaDone /\ []RtaBounded /\ [][RtaNeverShrinks]_vars

\* the fixpoint of a program in which B calls itself has ended with B
\* reachable and visited
C23_Witness ==
  /\ RtaDone
  /\ Call("call", "B") \in Range(project.body["B"])
  /\ "B" \in rta[1].visited
  /\ \E e \in Range(rta[1].st.out["B"]) : e.callee = "B"

\* the edges found, as a set
RtaEdges(st) == UNION {Range(st.out[f]) : f \in FuncKeys}

\* the fixpoint ends with the sets of the single-threaded run in queue order
SameAsSequential ==
  RtaDone =>
    LET seq == RtaFixpoint(project, RtaRoots)
    IN /\ rta[1].st.reach = seq.reach
       /\ rta[1].st.live = seq.live
       /\ RtaEdges(rta[1].st) = RtaEdges(seq)
       /\ \A f \in FuncKeys : Len(rta[1].st.out[f]) = Len(seq.out[f])

\* every interface call site visited is resolved to every live type that
\* satisfies its interface, whichever of the two came first
NoResolutionLost ==
  RtaDone =>
    \A k \in 1..Len(rta[1].st.sites) : \A t \in rta[1].st.live :
      rta[1].st.sites[k].ins.iface \in Satisfies(t) =>
        Edge(rta[1].st.sites[k].caller,
             MethodSet(t)[rta[1].st.sites[k].ins.method],
             rta[1].st.sites[k].site) \in RtaEdges(rta[1].st)

\* C24: the reachable functions, the live types and the edges the fixpoint
\* ends with do not depend on the order in which the workers process the
\* queue items, and an interface call visited before a satisfying type is
\* live is resolved to that type once it is live
C24_OrderIndependent == SameAsSequential /\ NoResolutionLost

\* two workers interleaved: B's interface call was visited by one worker
\* before the other made T live in main, and the call is resolved to T
C24_Witness ==
  /\ RtaDone
  /\ \E p, q \in 1..Len(rta[1].log) :
       /\ p < q
       /\ rta[1].log[p].w # rta[1].log[q].w
       /\ project.body[rta[1].log[p].f][rta[1].log[p].i] = Invoke("call", "I", "M")
       /\ project.body[rta[1].log[q].f][rta[1].log[q].i] = Make("T")
       /\ "T" \notin rta[1].log[q].live
       /\ \E e \in Range(rta[1].st.out[rta[1].log[p].f]) : e.callee = "TM"

\* the package path of a node contains an entry of the allow-list
NodeAllowed(n) ==
  /\ n.Package # NoPkg
  /\ \E i \in 1..Len(cfg.OnlyPkg) : cfg.OnlyPkg[i] # <<>> /\ Contains(n.Package, cfg.OnlyPkg[i])

\* the nodes at the other end of the edges of g at node n
Neighbours(g, n) ==
  {m \in Range(g.Nodes) :
     \E i \in 1..Len(g.Edges) :
       \/ g.Edges[i].Source = n.ID /\ g.Edges[i].Target = m.ID
       \/ g.Edges[i].Target = n.ID /\ g.Edges[i].Source = m.ID}

\* the functions that are an end of a retained edge of the underlying graph
WithRetainedEdge(a) ==
  {k \in FuncKeys : \E e \in GraphEdges(Underlying(a)) :
                      Retained(e.caller, e.callee) /\ k \in {e.caller, e.callee}}

\* C25: every node of the output is an end of an output edge and is the
\* node of a function with a retained edge; under a non-empty allow-list a
\* node outside it has an edge whose other end is inside it
C25_NoIsolatedNode ==
  \A a \in Requests : Has(a) =>
    \A i \in 1..Len(Graph(a).Nodes) :
      LET n == Graph(a).Nodes[i]
      IN /\ Neighbours(Graph(a), n) # {}
         /\ \E k \in WithRetainedEdge(a) :
              n = buildNode(k, result[1].Root, ConfigOf(a))
         /\ (cfg.OnlyPkg # <<>> /\ ~NodeAllowed(n)) =>
              \E m \in Neighbours(Graph(a), n) : NodeAllowed(m)

\* under a non-empty allow-list the output has a node outside it, and a
\* function of the underlying graph has no node because none of its edges
\* is retained
C25_Witness ==
  \E a \in Requests :
    /\ Has(a) /\ cfg.OnlyPkg # <<>>
    /\ \E i \in 1..Len(Graph(a).Nodes) : ~NodeAllowed(Graph(a).Nodes[i])
    /\ \E e \in GraphEdges(Underlying(a)) :
         /\ ~Retained(e.caller, e.callee)
         /\ FuncID[e.caller] \notin NodeIDs(Graph(a))

\* runAnalysis has run and its load succeeded
Loaded == analysis # None /\ result # None

\* runAnalysis has called Build: the load succeeded at a call-graph level
BuildInvoked == Loaded /\ WantsCallGraph(cli.analysisLevel)

\* C26: runAnalysis calls Build only with a load result that has the SSA
\* program: a successful load has it exactly at the levels call_graph and
\* full, the levels at which Build is called, and no run reports a failed
\* call-graph build
C26_BuildAlwaysHasSSA ==
  /\ BuildInvoked => result[1].SSAProgram # <<>>
  /\ Loaded => (result[1].SSAProgram # <<>> <=> cli.analysisLevel \in {"call_graph", "full"})
  /\ (Loaded /\ analysis[1].out # <<>>) =>
       \A i \in 1..Len(analysis[1].out[1].Issues) :
         analysis[1].out[1].Issues[i].Code # "CALLGRAPH_ERROR"

\* a run at level call_graph under an allow-list that matches has loaded
\* with the SSA program and has written a call graph
C26_Witness ==
  /\ BuildInvoked /\ cli.analysisLevel = "call_graph" /\ cli.onlyPkg # <<>>
  /\ result[1].SSAProgram # <<>>
  /\ analysis[1].out # <<>> /\ analysis[1].out[1].CallGraph # <<>>

(***************************************************************************)
(* SpecSym: symbols.Extract on one package, file by file, and then         *)
(* schema.ToCompact on the analysis holding the package and a call graph.  *)
(***************************************************************************)
MaxDecls == 3
MaxFiles == 2

\* declarations of a file: a type, a function, a method
TypeDecl(t) ==
  [kind |-> "type", pkg |-> PkgP, name |-> t, recvKind |-> "none", tname |-> t,
   generic |-> FALSE]
FuncDecl(n) ==
  [kind |-> "func", pkg |-> PkgP, name |-> n, recvKind |-> "none", tname |-> <<"T">>,
   generic |-> FALSE]
MethodDecl(rk, t, n) ==
  [kind |-> "func", pkg |-> PkgP, name |-> n, recvKind |-> rk, tname |-> t,
   generic |-> FALSE]

InitDeclSym == FuncDecl(<<"i", "n", "i", "t">>)

SymDecls ==
  {TypeDecl(<<"T">>), TypeDecl(<<"U">>), InitDeclSym, FuncDecl(<<"M">>),
   MethodDecl("value", <<"T">>, <<"M">>), MethodDecl("pointer", <<"U">>, <<"M">>)}

\* the declarations of a package in file order: only init may be declared
\* more than once
DeclSeqs ==
  UNION {{ds \in [1..n -> SymDecls] :
            \A i, j \in 1..n : (i # j /\ ds[i] = ds[j]) => ds[i] = InitDeclSym} :
           n \in 0..MaxDecls}

\* pkg.Syntax: the declarations cut into files, some of them empty
SyntaxOf(ds, at) ==
  [f \in 1..MaxFiles |-> SelectSeq([i \in 1..Len(ds) |-> [d |-> ds[i], f |-> at[i]]],
                                   LAMBDA x : x.f = f)]

FilesOf(ds, at) ==
  [f \in 1..MaxFiles |-> [i \in 1..Len(SyntaxOf(ds, at)[f]) |-> SyntaxOf(ds, at)[f][i].d]]

SymPackages ==
  UNION {{FilesOf(ds, at) :
            at \in {a \in [1..Len(ds) -> 1..MaxFiles] :
                      \A i, j \in 1..Len(ds) : i <= j => a[i] <= a[j]}} :
           ds \in DeclSeqs}

EmptyMap == <<>>

\* the CLDKCallable and the CLDKMethod of a function declaration, the
\* CLDKType of a type declaration
Callable(d) ==
  [QualifiedName |-> extractCallable(d), Name |-> d.name,
   Kind |-> IF d.recvKind # "none" THEN "method" ELSE "function",
   ReceiverType |-> IF d.recvKind # "none" THEN extractReceiverInfo(d).typeName ELSE <<>>]

extractType(d) ==
  [QualifiedName |-> d.pkg \o <<".">> \o d.name, Name |-> d.name, Methods |-> EmptyMap]

\* m[k] = v on a Go map
MapSet(m, k, v) == (k :> v) @@ m

\* the first loop over the declarations of a file
RECURSIVE DeclPass(_, _)
DeclPass(pkg, ds) ==
  IF ds = <<>> THEN pkg
  ELSE LET d == Head(ds)
       IN DeclPass(IF d.kind = "func"
                   THEN [pkg EXCEPT !.CallableDeclarations =
                           MapSet(@, extractCallable(d), Callable(d))]
                   ELSE [pkg EXCEPT !.TypeDeclarations =
                           MapSet(@, extractType(d).QualifiedName, extractType(d))],
                   Tail(ds))

\* the second loop over the declarations of a file: a method is attached
\* to its receiver type when the type is in TypeDeclarations
RECURSIVE MethodPass(_, _)
MethodPass(pkg, ds) ==
  IF ds = <<>> THEN pkg
  ELSE LET d == Head(ds)
           typeQN == d.pkg \o <<".">> \o extractBaseTypeName(d)
       IN MethodPass(IF /\ d.kind = "func" /\ d.recvKind # "none"
                        /\ typeQN \in DOMAIN pkg.TypeDeclarations
                     THEN [pkg EXCEPT !.TypeDeclarations[typeQN].Methods =
                             MapSet(@, extractCallable(d), Callable(d))]
                     ELSE pkg,
                     Tail(ds))

\* one iteration of the loop of extractPackage over pkg.Syntax
ExtractFileOf(pkg, file) == MethodPass(DeclPass(pkg, file), file)

\* convertPackage: the type map is keyed by the name of the type, the
\* function map by the name of the callable; among callables of one name
\* the one the map iteration meets last stays
convertPackage(pkg) ==
  LET tnames == {pkg.TypeDeclarations[q].Name : q \in DOMAIN pkg.TypeDeclarations}
      fnames == {pkg.CallableDeclarations[q].Name : q \in DOMAIN pkg.CallableDeclarations}
  IN {[Types |-> ts, Funcs |-> fs] :
        ts \in {t \in [tnames -> {[Name |-> pkg.TypeDeclarations[q].Name,
                                   Methods |-> DOMAIN pkg.TypeDeclarations[q].Methods] :
                                    q \in DOMAIN pkg.TypeDeclarations}] :
                  \A n \in tnames : t[n].Name = n},
        fs \in {f \in [fnames -> {[Name |-> pkg.CallableDeclarations[q].Name,
                                   Kind |-> IF pkg.CallableDeclarations[q].Kind = "method"
                                            THEN "m" ELSE "",
                                   Recv |-> pkg.CallableDeclarations[q].ReceiverType] :
                                    q \in DOMAIN pkg.CallableDeclarations}] :
                  \A n \in fnames : f[n].Name = n}}

\* convertCallGraph
convertCallGraph(cg) ==
  [Algo |-> cg.Algorithm,
   Edges |-> [i \in 1..Len(cg.Edges) |-> <<cg.Edges[i].Source, cg.Edges[i].Target>>]]

InitSym ==
  /\ project \in {p \in Programs :
                    /\ p.pkgName = "main" /\ p.body["B"] = <<>>
                    /\ p.body["main"] \in {<<>>, <<Call("call", "B"), Invoke("call", "I", "M")>>}}
  /\ result = LoadWithSSA(project, [OnlyPkg |-> <<>>, NeedSSA |-> TRUE]).result
  /\ cfg = [EmitPositions |-> "detailed", OnlyPkg |-> <<>>]
  /\ built = [a \in Requests |-> None]
  /\ cli = NoCli
  /\ analysis = None
  /\ ident = None
  /\ graph = [a \in Requests |-> None]
  /\ mainProc = NoProc
  /\ loop = None
  /\ rta = None
  /\ symtab \in {<<[files |-> fs, next |-> 1,
                    pkg |-> [TypeDeclarations |-> EmptyMap, CallableDeclarations |-> EmptyMap],
                    cg |-> None, compact |-> None]>> : fs \in SymPackages}

\* extractPackage processes the next file of pkg.Syntax
ExtractFile ==
  /\ symtab # None /\ symtab[1].next <= Len(symtab[1].files)
  /\ symtab' = <<[symtab[1] EXCEPT
                    !.pkg = ExtractFileOf(@, symtab[1].files[symtab[1].next]),
                    !.next = @ + 1]>>
  /\ UNCHANGED <<project, result, cfg, built, cli, analysis, ident, graph, mainProc, loop, rta>>

\* ToCompact on the analysis with the extracted package and the call graph
\* Build returns for the project
ToCompactCall ==
  /\ symtab # None /\ symtab[1].next > Len(symtab[1].files) /\ symtab[1].compact = None
  /\ \E order \in Orders(SelectGraph(result[1], ConfigOf("cha")).cg) :
       \E cp \in convertPackage(symtab[1].pkg) :
         LET cg == Convert(SelectGraph(result[1], ConfigOf("cha")), result[1].Root,
                           ConfigOf("cha"), order)
         IN symtab' = <<[symtab[1] EXCEPT
                           !.cg = <<cg>>,
                           !.compact = <<[Pkg |-> cp, CG |-> convertCallGraph(cg)]>>]>>
  /\ UNCHANGED <<project, result, cfg, built, cli, analysis, ident, graph, mainProc, loop, rta>>

NextSym == ExtractFile \/ ToCompactCall

SpecSym == InitSym /\ [][NextSym]_vars

\* extractPackage has processed every file
Extracted == symtab # None /\ symtab[1].next > Len(symtab[1].files)

\* the declarations of the files processed so far
DeclsDone ==
  Flatten([f \in 1..(symtab[1].next - 1) |-> symtab[1].files[f]])

\* C27: after the extraction every method whose receiver type is declared
\* in the package is in the methods map of that type, whatever the order
\* of the files
C27_MethodsAttached ==
  Extracted =>
    \A i, j \in 1..Len(DeclsDone) :
      LET m == DeclsDone[i]
          t == DeclsDone[j]
      IN (m.kind = "func" /\ m.recvKind # "none" /\ t.kind = "type" /\ t.name = m.tname) =>
           extractCallable(m) \in
             DOMAIN symtab[1].pkg.TypeDeclarations[extractType(t).QualifiedName].Methods

\* C28: callable_declarations has as many entries as function and method
\* declarations have been processed
C28_OneEntryPerDeclaration ==
  symtab # None =>
    Cardinality(DOMAIN symtab[1].pkg.CallableDeclarations)
      = Len(SelectSeq(DeclsDone, LAMBDA d : d.kind = "func"))

\* the compact call graph lists the edges of the full one in its order
SameEdges ==
  (symtab # None /\ symtab[1].compact # None) =>
    /\ Len(symtab[1].compact[1].CG.Edges) = Len(symtab[1].cg[1].Edges)
    /\ \A i \in 1..Len(symtab[1].cg[1].Edges) :
         symtab[1].compact[1].CG.Edges[i]
           = <<symtab[1].cg[1].Edges[i].Source, symtab[1].cg[1].Edges[i].Target>>

\* the compact package has one type per type declaration
SameTypes ==
  (symtab # None /\ symtab[1].compact # None) =>
    Cardinality(DOMAIN symtab[1].compact[1].Pkg.Types)
      = Cardinality(DOMAIN symtab[1].pkg.TypeDeclarations)

\* the compact package has one function per callable declaration
SameFuncs ==
  (symtab # None /\ symtab[1].compact # None) =>
    Cardinality(DOMAIN symtab[1].compact[1].Pkg.Funcs)
      = Cardinality(DOMAIN symtab[1].pkg.CallableDeclarations)

\* C29: ToCompact keeps one function per callable declaration and one type
\* per type declaration, and the compact call graph lists the edges of
\* the full one in the same order
C29_CompactLosesNothing == SameFuncs /\ SameTypes /\ SameEdges

\* a validated run whose load succeeded has reached the write step
ReachedWrite == mainProc.pc # "start" /\ analysis # None /\ result # None

\* C30: every format validateConfig accepts is written by output.Write: no
\* run that passed the validation and carried out the analysis fails at
\* the write step
C30_AcceptedFormatIsWritable ==
  ReachedWrite => analysis[1].err # "write output"
=============================================================================
